---------------------------- MODULE Spec2Model ----------------------------
(***************************************************************************)
(* A state-machine model of the low-rank (Rk) matrix algebra of hmat-oss   *)
(* (src/src/rk_matrix.cpp) and of its tree class (src/src/tree.hpp, at the *)
(* end of the module).  An Rk block is the pair of factor panels      *)
(* (a, b) over the index sets (rows, cols).  Panels are modelled by their  *)
(* shape, their ortho flag and an abstract description of their content;   *)
(* the numerical kernels (QR, MGS, SVD) are modelled by the shapes they    *)
(* return and by the singular values they hand to findK, which are drawn   *)
(* from small sets.                                                        *)
(***************************************************************************)
EXTENDS Integers, Sequences, FiniteSets, TLC

VARIABLES
  env,    \* process-wide approximation control and cached environment toggles
  self,   \* the Rk block the methods are called on
  tmp,    \* the Rk built by formattedAddParts that axpy / gemmRk is about to swap in
  pc,     \* position of the caller: "idle", inside axpy / gemmRk, or "aborted"
  call,   \* the call in progress or last completed: its arguments and what it did
  nodes   \* the Tree nodes allocated so far (src/src/tree.hpp), by address

vars == <<env, self, tmp, pc, call, nodes>>

-----------------------------------------------------------------------------
(* Bounds of the model *)

MaxLen == 3      \* longest vector of singular values handed to findK directly
MaxSigma == 2    \* largest singular value (in grid units) of the generic inputs
MaxCfgK == 2     \* largest configured rank approx.k
MaxDim == 2      \* largest rows.size / cols.size of the block
MaxRank == 2     \* largest rank of an input Rk
MaxCoef == 1     \* largest accumulated scaling coefficient tracked on a panel
MaxParts == 2    \* longest parts[] list handed to formattedAddParts

-----------------------------------------------------------------------------
(* Generic helpers *)

Min(x, y) == IF x <= y THEN x ELSE y
Max(x, y) == IF x >= y THEN x ELSE y

RECURSIVE Sum(_)
Sum(s) == IF s = <<>> THEN 0 ELSE s[1] + Sum(Tail(s))

\* all sequences over S of length 0..n
RECURSIVE SeqsUpTo(_, _)
SeqsUpTo(S, n) ==
  IF n = 0 THEN {<<>>}
  ELSE LET shorter == SeqsUpTo(S, n - 1)
       IN shorter \cup {Append(s, x) : s \in {t \in shorter : Len(t) = n - 1}, x \in S}

Range(f) == { f[i] : i \in DOMAIN f }

NULL == <<>>           \* a null pointer; a non-null pointer to x is <<x>>
Ptr(x) == <<x>>

-----------------------------------------------------------------------------
(* RkApproximationControl::findK                                           *)
(* Doubles are modelled as exact non-negative multiples of a grid unit and *)
(* the tolerance epsilon as the fraction num/den, so that                  *)
(*   sigma[i] <= epsilon * S   <=>   sigma[i] <= (num * S) \div den        *)

Eps(n, d) == [num |-> n, den |-> d]

\* the comparison  sigma[i] <= threshold_eigenvalue  of line 60
LeqThreshold(x, epsilon, S) == x <= (epsilon.num * S) \div epsilon.den

\* lines 49-57: the value the threshold is relative to; with the L2 criterion
\* sigma[0] is read even from an empty vector, which yields whatever lies there
ThresholdBase(sigma, useL2Criterion, oob) ==
  IF ~useL2Criterion THEN Sum(sigma)
  ELSE IF Len(sigma) > 0 THEN sigma[1] ELSE oob

\* lines 58-64: the loop  for (i = 0; i < sigma.rows; i++) if (...) break;
RECURSIVE FirstBelow(_, _, _, _)
FirstBelow(sigma, epsilon, S, i) ==
  IF i < Len(sigma) /\ ~LeqThreshold(sigma[i + 1], epsilon, S)
  THEN FirstBelow(sigma, epsilon, S, i + 1)
  ELSE i

RECURSIVE FirstStrictlyBelow(_, _, _, _)
FirstStrictlyBelow(sigma, epsilon, S, i) ==
  IF i < Len(sigma) /\ ~(sigma[i + 1] < (epsilon.num * S) \div epsilon.den)
  THEN FirstStrictlyBelow(sigma, epsilon, S, i + 1)
  ELSE i

\* findK with  <  in place of  <=  at line 60
findK_strict(sigma, epsilon, k, useL2Criterion, oob) ==
  IF k # 0 THEN Min(k, Len(sigma))
  ELSE FirstStrictlyBelow(sigma, epsilon, ThresholdBase(sigma, useL2Criterion, oob), 0)

\* findK without the std::min of line 45
findK_nocap(sigma, epsilon, k, useL2Criterion, oob) ==
  IF k # 0 THEN k
  ELSE FirstBelow(sigma, epsilon, ThresholdBase(sigma, useL2Criterion, oob), 0)

findK(sigma, epsilon, k, useL2Criterion, oob) ==
  IF k # 0 THEN Min(k, Len(sigma))
  ELSE FirstBelow(sigma, epsilon, ThresholdBase(sigma, useL2Criterion, oob), 0)


-----------------------------------------------------------------------------
(* Index sets, panels and Rk blocks *)

IndexSet(o, s) == [offset |-> o, size |-> s]

isSubset(sub, sup) ==
  sub.offset >= sup.offset /\ sub.offset + sub.size <= sup.offset + sup.size

intersects(x, y) ==
  Max(x.offset, y.offset) < Min(x.offset + x.size, y.offset + y.size)

\* content of a panel: what computed it, the scalar it has been scaled by since,
\* and whether it has been conjugated
Val(id) == [id |-> id, coef |-> 1, conj |-> FALSE]

\* a ScalarArray: shape, ortho flag, content
ScalarArray(r, c, o, v) == [rows |-> r, cols |-> c, ortho |-> o, val |-> v]

\* the compression-method tags, ordered as std::min orders them
NoCompression == 1

\* RkMatrix::RkMatrix: the members as initialised (lines 74-78)
RkMatrix(a, rows, b, cols, method) ==
  [rows |-> rows, cols |-> cols, a |-> a, b |-> b, method |-> method]

\* the assertions of the constructor (lines 82-86)
CtorAsserts(rk) ==
  (rk.a = NULL /\ rk.b = NULL)
  \/ (rk.a # NULL /\ rk.b # NULL
      /\ rk.a[1].rows = rk.rows.size /\ rk.b[1].rows = rk.cols.size)

rank(rk) == IF rk.a = NULL THEN 0 ELSE rk.a[1].cols

-----------------------------------------------------------------------------
(* Scalar kernels on one panel *)

ScalarArray_scale(p, alpha) ==
  [p EXCEPT !.val.coef = @ * alpha, !.ortho = @ /\ alpha = 1]

ScalarArray_conjugate(p) == [p EXCEPT !.val.conj = ~@]

\* singular values returned by an SVD of a matrix with len = min(rows, cols):
\* a non-increasing vector, one per profile
Profiles == {"flat", "tail0", "gap", "zero"}

Sigma(prof, len) ==
  [i \in 1..len |->
     CASE prof = "flat"  -> 1
       [] prof = "tail0" -> IF i < len THEN 1 ELSE 0
       [] prof = "gap"   -> IF i = 1 THEN 4 ELSE IF i = 2 THEN 1 ELSE 0
       [] OTHER          -> 0]

\* modifiedGramSchmidt: the number of columns it keeps
modifiedGramSchmidt(p, drop) == Max(0, Min(p.rows, p.cols) - drop)

-----------------------------------------------------------------------------
(* Elementary operations of RkMatrix *)

scale(rk, alpha) ==
  IF rk.a # NULL THEN [rk EXCEPT !.a = Ptr(ScalarArray_scale(rk.a[1], alpha))]
  ELSE rk

transpose(rk) ==
  [rk EXCEPT !.a = rk.b, !.b = rk.a, !.rows = rk.cols, !.cols = rk.rows]

\* clear that frees a only
clear_a_only(rk) == [rk EXCEPT !.a = NULL]

clear(rk) == [rk EXCEPT !.a = NULL, !.b = NULL]

conjugate(rk) ==
  [rk EXCEPT !.a = IF rk.a # NULL THEN Ptr(ScalarArray_conjugate(rk.a[1])) ELSE NULL,
             !.b = IF rk.b # NULL THEN Ptr(ScalarArray_conjugate(rk.b[1])) ELSE NULL]

\* swap: the assertions, then the three std::swap
swapAsserts(this, other) == this.rows = other.rows /\ this.cols = other.cols

swap(this, other) ==
  [this  |-> [this EXCEPT !.a = other.a, !.b = other.b, !.method = other.method],
   other |-> [other EXCEPT !.a = this.a, !.b = this.b, !.method = this.method]]

\* copy(const RkMatrix* o): method is not copied
copy(this, o) ==
  [this EXCEPT !.rows = o.rows, !.cols = o.cols, !.a = o.a, !.b = o.b]

-----------------------------------------------------------------------------
(* Rank truncation.  K is the outcome of the numerical kernels of one call: *)
(*   K.prof   the profile of the singular values an SVD returns             *)
(*   K.fail   whether the small SVD (called with allow-failure) failed      *)
(*   K.dropA, K.dropB  the columns modifiedGramSchmidt drops from a and b   *)
(*   K.method the method tag truncatedSvd gives its result                  *)

Kernel(prof, fail, dropA, dropB, method) ==
  [prof |-> prof, fail |-> fail, dropA |-> dropA, dropB |-> dropB, method |-> method]

\* what a truncation reports besides the Rk it leaves
TruncResult(rk, ret, path, abortAt, pA, pB, svdFailed, newK) ==
  [rk |-> rk, ret |-> ret, path |-> path, abortAt |-> abortAt,
   pivA |-> pA, pivB |-> pB, svdFailed |-> svdFailed, newK |-> newK]

\* truncatedSvd(FullMatrix*, epsilon): SVD of the dense m x n block, findK, and an
\* Rk over the same index sets (empty when nothing is kept)
truncatedSvd(rows, cols, epsilon, K) ==
  LET sigma == Sigma(K.prof, Min(rows.size, cols.size))
      newK  == findK(sigma, epsilon, env.k, env.L2, 0)
  IN IF newK = 0 THEN RkMatrix(NULL, rows, NULL, cols, K.method)
     ELSE RkMatrix(Ptr(ScalarArray(rows.size, newK, FALSE, Val("svd"))), rows,
                   Ptr(ScalarArray(cols.size, newK, FALSE, Val("svd"))), cols, K.method)

\* RkMatrix::mGSTruncate
mGSTruncate(rk, epsilon, initialPivotA, initialPivotB, K) ==
  IF rank(rk) = 0
  THEN \* lines 364-367
       TruncResult(rk, "return", "empty", "none", initialPivotA, initialPivotB, FALSE, 0)
  ELSE
  LET kA    == modifiedGramSchmidt(rk.a[1], K.dropA)          \* line 380
      kB    == modifiedGramSchmidt(rk.b[1], K.dropB)          \* line 390
      sigma == Sigma(K.prof, Min(kA, kB))                     \* line 406, matR is kA x kB
      newK  == findK(sigma, epsilon, env.k, env.L2, 0)        \* line 411
  IN IF kA = 0 \/ kB = 0
     THEN \* lines 381-384 and 391-394
          TruncResult(clear(rk), "return", "mgs", "none", initialPivotA, initialPivotB, FALSE, 0)
     ELSE IF newK = 0
     THEN \* lines 412-419
          TruncResult(clear(rk), "return", "mgs", "none", initialPivotA, initialPivotB, K.fail, 0)
     ELSE \* lines 436-450: newA is a->rows x newK, newB is b->rows x newK
          TruncResult(
            [rk EXCEPT !.a = Ptr(ScalarArray(rk.a[1].rows, newK, FALSE, Val("mgs"))),
                       !.b = Ptr(ScalarArray(rk.b[1].rows, newK, FALSE, Val("mgs")))],
            "return", "mgs", "none", initialPivotA, initialPivotB, K.fail, newK)

\* the QR -> SVD part of truncate (lines 260-359)
truncateQR(rk, epsilon, pA, pB, K) ==
  LET sigma == Sigma(K.prof, rank(rk))                        \* line 274, r is k x k
      newK  == findK(sigma, epsilon, env.k, env.L2, 0)        \* line 278
  IN IF newK = 0
     THEN \* lines 279-286
          TruncResult(clear(rk), "return", "qr", "none", pA, pB, K.fail, 0)
     ELSE \* lines 304-359: newA is rows->size() x newK, newB is cols->size() x newK
          TruncResult(
            [rk EXCEPT !.a = Ptr(ScalarArray(rk.rows.size, newK, FALSE, Val("qr"))),
                       !.b = Ptr(ScalarArray(rk.cols.size, newK, FALSE, Val("qr")))],
            "return", "qr", "none", pA, pB, K.fail, newK)

\* the dense fallback of truncate (lines 216-224)
truncateDense(rk, epsilon, pA, pB, K) ==
  LET full == truncatedSvd(rk.rows, rk.cols, epsilon, K)
  IN TruncResult(swap(rk, full).this, "return", "dense", "none", pA, pB, FALSE, rank(full))

\* truncate that asserts on the pivots as passed, before the toggle is applied
truncate_assertsFirst(rk, epsilon, initialPivotA, initialPivotB, K) ==
  LET pA == IF ~env.INITPIV THEN 0 ELSE initialPivotA
      pB == IF ~env.INITPIV THEN 0 ELSE initialPivotB
  IN IF ~(initialPivotA >= 0 /\ initialPivotA <= rank(rk)
          /\ initialPivotB >= 0 /\ initialPivotB <= rank(rk))
     THEN TruncResult(rk, "abort", "none", "pivot", pA, pB, FALSE, rank(rk))
     ELSE IF rank(rk) = 0
     THEN TruncResult(rk, "return", "empty", "none", pA, pB, FALSE, 0)
     ELSE IF ~(rk.rows.size >= rank(rk))
     THEN TruncResult(rk, "abort", "none", "rows", pA, pB, FALSE, rank(rk))
     ELSE IF rank(rk) > Min(rk.rows.size, rk.cols.size)
     THEN truncateDense(rk, epsilon, pA, pB, K)
     ELSE IF env.MGS
     THEN mGSTruncate(rk, epsilon, pA, pB, K)
     ELSE truncateQR(rk, epsilon, pA, pB, K)

\* truncate without the dense fallback
truncate_noFallback(rk, epsilon, initialPivotA, initialPivotB, K) ==
  LET pA == IF ~env.INITPIV THEN 0 ELSE initialPivotA
      pB == IF ~env.INITPIV THEN 0 ELSE initialPivotB
  IN IF ~(pA >= 0 /\ pA <= rank(rk) /\ pB >= 0 /\ pB <= rank(rk))
     THEN TruncResult(rk, "abort", "none", "pivot", pA, pB, FALSE, rank(rk))
     ELSE IF rank(rk) = 0
     THEN TruncResult(rk, "return", "empty", "none", pA, pB, FALSE, 0)
     ELSE IF ~(rk.rows.size >= rank(rk))
     THEN TruncResult(rk, "abort", "none", "rows", pA, pB, FALSE, rank(rk))
     ELSE IF env.MGS
     THEN mGSTruncate(rk, epsilon, pA, pB, K)
     ELSE truncateQR(rk, epsilon, pA, pB, K)

\* RkMatrix::truncate
truncate(rk, epsilon, initialPivotA, initialPivotB, K) ==
  LET pA == IF ~env.INITPIV THEN 0 ELSE initialPivotA         \* lines 197-201
      pB == IF ~env.INITPIV THEN 0 ELSE initialPivotB
  IN IF ~(pA >= 0 /\ pA <= rank(rk) /\ pB >= 0 /\ pB <= rank(rk))
     THEN \* the assertions of lines 202-203
          TruncResult(rk, "abort", "none", "pivot", pA, pB, FALSE, rank(rk))
     ELSE IF rank(rk) = 0
     THEN \* lines 205-208
          TruncResult(rk, "return", "empty", "none", pA, pB, FALSE, 0)
     ELSE IF ~(rk.rows.size >= rank(rk))
     THEN \* the assertion of line 210
          TruncResult(rk, "abort", "none", "rows", pA, pB, FALSE, rank(rk))
     ELSE IF rank(rk) > Min(rk.rows.size, rk.cols.size)
     THEN truncateDense(rk, epsilon, pA, pB, K)               \* lines 216-224
     ELSE IF env.MGS
     THEN mGSTruncate(rk, epsilon, pA, pB, K)                 \* lines 226-230
     ELSE truncateQR(rk, epsilon, pA, pB, K)

-----------------------------------------------------------------------------
(* formattedAddParts.  parts[] is a sequence of pointers (NULL or <<rk>>),  *)
(* alpha[] the sequence of coefficients.  A term of the sum is a part kept  *)
(* by the filter, with its coefficient and its index in parts[] (0: this).  *)

Term(rk, alpha, idx) == [rk |-> rk, alpha |-> alpha, idx |-> idx]

Bit(flag) == IF flag THEN 1 ELSE 0

\* the exclusion test without the test on alpha
Excluded_keepsZeroAlpha(part, alpha) ==
  \/ part = NULL
  \/ rank(part[1]) = 0
  \/ part[1].rows.size = 0
  \/ part[1].cols.size = 0

\* the exclusion test of line 499
Excluded(part, alpha) ==
  \/ part = NULL
  \/ rank(part[1]) = 0
  \/ part[1].rows.size = 0
  \/ part[1].cols.size = 0
  \/ alpha = 0

\* the loop of lines 497-510: the parts kept, in input order
RECURSIVE FilterParts(_, _, _)
FilterParts(alpha, parts, i) ==
  IF i > Len(parts) THEN <<>>
  ELSE IF Excluded(parts[i], alpha[i]) THEN FilterParts(alpha, parts, i + 1)
  ELSE <<Term(parts[i][1], alpha[i], i)>> \o FilterParts(alpha, parts, i + 1)

\* usedParts[] / usedAlpha[] after line 510 (this first, lines 490-494)
UsedParts(this, alpha, parts) ==
  (IF rank(this) # 0 THEN <<Term(this, 1, 0)>> ELSE <<>>)
  \o FilterParts(alpha, parts, 1)

RECURSIVE RankSum(_)
RankSum(used) == IF used = <<>> THEN 0 ELSE rank(used[1].rk) + RankSum(Tail(used))

\* minMethod of lines 496 and 506
RECURSIVE MinMethod(_, _)
MinMethod(m, kept) ==
  IF kept = <<>> THEN m ELSE MinMethod(Min(m, kept[1].rk.method), Tail(kept))

\* the assertions of lines 502-503
SubsetAsserts(this, used) ==
  \A i \in 1..Len(used) :
    isSubset(used[i].rk.rows, this.rows) /\ isSubset(used[i].rk.cols, this.cols)

\* a dense block: its index sets
FullMatrix(rows, cols) == [rows_ |-> rows, cols_ |-> cols]

\* RkMatrix::eval
eval(rk) == FullMatrix(rk.rows, rk.cols)

\* formattedAddParts, dense list (lines 632-658): the pairs (alpha[i], parts[i])
\* accumulated into the dense copy of this, and the Rk truncatedSvd returns
RECURSIVE FullAccumulated(_, _, _)
FullAccumulated(alpha, fullParts, i) ==
  IF i > Len(fullParts) THEN <<>>
  ELSE IF fullParts[i] = NULL THEN FullAccumulated(alpha, fullParts, i + 1)
  ELSE <<[pos |-> i, alpha |-> alpha[i], rows |-> fullParts[i][1].rows_,
          cols |-> fullParts[i][1].cols_]>>
       \o FullAccumulated(alpha, fullParts, i + 1)

FullAsserts(this, fullParts) ==
  \A i \in 1..Len(fullParts) :
    fullParts[i] # NULL =>
      /\ isSubset(fullParts[i][1].rows_, this.rows)
      /\ isSubset(fullParts[i][1].cols_, this.cols)

formattedAddPartsFull(this, alpha, fullParts, K) ==
  IF ~FullAsserts(this, fullParts)
  THEN [ret |-> "abort", rk |-> this, acc |-> <<>>]
  ELSE [ret |-> "return",
        rk  |-> truncatedSvd(this.rows, this.cols, env.eps, K),
        acc |-> FullAccumulated(alpha, fullParts, 1)]

\* fullParts[] with this evaluated too, in place of the null placeholder
FullParts_evalThis(this, used) ==
  [i \in 1..Len(used) |-> Ptr(eval(used[i].rk))]

\* lines 519-522: fullParts[] built from usedParts[]
FullParts(this, used) ==
  [i \in 1..Len(used) |->
     IF i = 1 /\ rank(this) # 0 THEN NULL ELSE Ptr(eval(used[i].rk))]

UsedAlpha(used) == [i \in 1..Len(used) |-> used[i].alpha]

-----------------------------------------------------------------------------
(* The reordering of HMAT_MGS_BESTRK (lines 534-591).  Positions in used[] *)
(* are 1-based here: position p is usedParts[p - 1].                       *)

SwapAt(seq, i, j) == [seq EXCEPT ![i] = seq[j], ![j] = seq[i]]

PivotA(t) == IF t.rk.a[1].ortho THEN rank(t.rk) ELSE 0
PivotB(t) == IF t.rk.b[1].ortho THEN rank(t.rk) ELSE 0

\* lines 538-548
RECURSIVE BestSingle(_, _, _)
BestSingle(used, i, best) ==
  IF i > Len(used) THEN best
  ELSE LET gain == (Bit(used[i].rk.a[1].ortho) + Bit(used[i].rk.b[1].ortho))
                   * rank(used[i].rk) * rank(used[i].rk)
       IN BestSingle(used, i + 1,
                     IF gain > best.gain THEN [pos |-> i, gain |-> gain] ELSE best)

\* lines 568-569
PairRkA(t1, t2) ==
  IF t1.rk.a[1].ortho
  THEN rank(t1.rk) + (IF t2.rk.a[1].ortho /\ ~intersects(t1.rk.rows, t2.rk.rows)
                      THEN rank(t2.rk) ELSE 0)
  ELSE 0

PairRkB(t1, t2) ==
  IF t1.rk.b[1].ortho
  THEN rank(t1.rk) + (IF t2.rk.b[1].ortho /\ ~intersects(t1.rk.cols, t2.rk.cols)
                      THEN rank(t2.rk) ELSE 0)
  ELSE 0

\* lines 570-577: the best pair so far, after the pair (i1, i2) is compared
PairBest(best, i1, i2, rkA, rkB) ==
  IF rkA * rkA + rkB * rkB > best.gain
  THEN [i1 |-> i1, i2 |-> i2, rkA |-> rkA, rkB |-> rkB, gain |-> rkA * rkA + rkB * rkB]
  ELSE best

\* lines 560-578: c enumerates the pairs (i1, i2) in the order of the two loops
RECURSIVE BestPair(_, _, _)
BestPair(used, c, best) ==
  LET n  == Len(used)
      i1 == (c \div n) + 1
      i2 == (c % n) + 1
  IN IF c >= n * n THEN best
     ELSE IF i1 = i2 THEN BestPair(used, c + 1, best)
     ELSE BestPair(used, c + 1,
                   PairBest(best, i1, i2, PairRkA(used[i1], used[i2]),
                            PairRkB(used[i1], used[i2])))

\* the two swaps without line 584
ReorderPair_secondAsFound(u1, pair) ==
  IF pair.i1 >= 1
  THEN [used |-> SwapAt(SwapAt(u1, 1, pair.i1), 2, pair.i2),
        pivA |-> pair.rkA, pivB |-> pair.rkB]
  ELSE [used |-> u1, pivA |-> PivotA(u1[1]), pivB |-> PivotB(u1[1])]

\* lines 580-589: the best pair, if one was found, goes to positions 1 and 2
ReorderPair(u1, pair) ==
  IF pair.i1 >= 1
  THEN LET u2 == SwapAt(u1, 1, pair.i1)
           j2 == IF pair.i2 = 1 THEN pair.i1 ELSE pair.i2            \* line 584
       IN [used |-> SwapAt(u2, 2, j2), pivA |-> pair.rkA, pivB |-> pair.rkB]
  ELSE [used |-> u1, pivA |-> PivotA(u1[1]), pivB |-> PivotB(u1[1])]

\* lines 557-578: the search of the pairs starts from the gain of the best term
ReorderSingle(u1, gain) ==
  ReorderPair(u1, BestPair(u1, 0, [i1 |-> 0, i2 |-> 0, rkA |-> -1, rkB |-> -1,
                                   gain |-> gain]))

\* lines 549-554: the best single term goes first
BestFirst(used, single) ==
  ReorderSingle(IF single.pos > 1 THEN SwapAt(used, 1, single.pos) ELSE used,
                single.gain)

\* lines 531-591: the order of the terms and the initial pivots
Reorder(used) ==
  IF ~env.BESTRK
  THEN [used |-> used, pivA |-> PivotA(used[1]), pivB |-> PivotB(used[1])]
  ELSE BestFirst(used, BestSingle(used, 1, [pos |-> 0, gain |-> -1]))

-----------------------------------------------------------------------------
(* Concatenation (lines 593-622).  The objects the loop can touch are kept  *)
(* in a heap: this, parts[] and the column segments written to the result.  *)

Seg(t, this, kOffset) ==
  [idx |-> t.idx, alpha |-> t.alpha, scaled |-> t.alpha # 1,
   rowOffset |-> t.rk.rows.offset - this.rows.offset, m |-> t.rk.a[1].rows,
   colOffset |-> t.rk.cols.offset - this.cols.offset, n |-> t.rk.b[1].rows,
   kOffset |-> kOffset, r |-> rank(t.rk)]

\* one iteration that scales the panel a of the part itself, not the slice of resultA
ConcatTerm_scalesPart(heap, t, kOffset) ==
  LET h == [heap EXCEPT !.segs = Append(@, Seg(t, heap.this, kOffset))]
  IN IF t.alpha = 1 THEN h
     ELSE IF t.idx = 0 THEN [h EXCEPT !.this = scale(@, t.alpha)]
     ELSE [h EXCEPT !.parts[t.idx] = Ptr(scale(@[1], t.alpha))]

\* one iteration (lines 606-621): a and b are copied into the result, the slice of
\* resultA is scaled in place; the part is only read
ConcatTerm(heap, t, kOffset) ==
  [heap EXCEPT !.segs = Append(@, Seg(t, heap.this, kOffset))]

\* the loop without the update of the rank offset of line 621
RECURSIVE Concat_sameOffset(_, _, _, _)
Concat_sameOffset(heap, used, i, kOffset) ==
  IF i > Len(used) THEN heap
  ELSE Concat_sameOffset(ConcatTerm(heap, used[i], kOffset), used, i + 1, kOffset)

RECURSIVE Concat(_, _, _, _)
Concat(heap, used, i, kOffset) ==
  IF i > Len(used) THEN heap
  ELSE Concat(ConcatTerm(heap, used[i], kOffset), used, i + 1,
              kOffset + rank(used[i].rk))

FapResult(ret, path, rk, heap, used, order, pivA, pivB, truncRun, trunc, acc) ==
  [ret |-> ret, path |-> path, rk |-> rk, this |-> heap.this, parts |-> heap.parts,
   segs |-> heap.segs, used |-> used, order |-> order, rankTotal |-> RankSum(used),
   pivA |-> pivA, pivB |-> pivB, truncRun |-> truncRun, trunc |-> trunc, acc |-> acc]

\* formattedAddParts that truncates whenever dotruncate is set
formattedAddParts_alwaysTruncates(this, alpha, parts, dotruncate, K) ==
  LET used      == UsedParts(this, alpha, parts)
      minMethod == MinMethod(this.method, FilterParts(alpha, parts, 1))
      heap0     == [this |-> this, parts |-> parts, segs |-> <<>>]
      ro        == Reorder(used)
      heap      == Concat(heap0, ro.used, 1, 0)
      rk        == RkMatrix(
                     Ptr(ScalarArray(this.rows.size, RankSum(used), FALSE, Val("cat"))),
                     this.rows,
                     Ptr(ScalarArray(this.cols.size, RankSum(used), FALSE, Val("cat"))),
                     this.cols, minMethod)
      t         == truncate(rk, env.eps, ro.pivA, ro.pivB, K)
      full      == formattedAddPartsFull(this, UsedAlpha(used), FullParts(this, used), K)
  IN IF ~SubsetAsserts(this, used)
     THEN FapResult("abort", "none", this, heap0, used, used, 0, 0, FALSE, "none", <<>>)
     ELSE IF Len(used) = 0
     THEN FapResult("return", "empty",
                    RkMatrix(NULL, this.rows, NULL, this.cols, minMethod),
                    heap0, used, used, 0, 0, FALSE, "none", <<>>)
     ELSE IF RankSum(used) >= Min(this.rows.size, this.cols.size)
     THEN FapResult(full.ret, "dense", full.rk, heap0, used, used, 0, 0,
                    FALSE, "none", full.acc)
     ELSE IF dotruncate
     THEN FapResult(t.ret, "concat", t.rk, heap, used, ro.used, ro.pivA, ro.pivB,
                    TRUE, t.path, <<>>)
     ELSE FapResult("return", "concat", rk, heap, used, ro.used, ro.pivA, ro.pivB,
                    FALSE, "none", <<>>)

\* RkMatrix::formattedAddParts, Rk list (lines 475-630)
formattedAddParts(this, alpha, parts, dotruncate, K) ==
  LET used      == UsedParts(this, alpha, parts)                 \* lines 489-510
      minMethod == MinMethod(this.method, FilterParts(alpha, parts, 1))
      heap0     == [this |-> this, parts |-> parts, segs |-> <<>>]
      ro        == Reorder(used)                                 \* lines 531-591
      heap      == Concat(heap0, ro.used, 1, 0)                  \* lines 593-622
      rk        == RkMatrix(                                     \* line 624
                     Ptr(ScalarArray(this.rows.size, RankSum(used), FALSE, Val("cat"))),
                     this.rows,
                     Ptr(ScalarArray(this.cols.size, RankSum(used), FALSE, Val("cat"))),
                     this.cols, minMethod)
      t         == truncate(rk, env.eps, ro.pivA, ro.pivB, K)    \* line 627
      full      == formattedAddPartsFull(this, UsedAlpha(used), FullParts(this, used), K)
  IN IF ~SubsetAsserts(this, used)
     THEN \* the assertions of lines 502-503
          FapResult("abort", "none", this, heap0, used, used, 0, 0, FALSE, "none", <<>>)
     ELSE IF Len(used) = 0
     THEN \* lines 512-513
          FapResult("return", "empty",
                    RkMatrix(NULL, this.rows, NULL, this.cols, minMethod),
                    heap0, used, used, 0, 0, FALSE, "none", <<>>)
     ELSE IF RankSum(used) >= Min(this.rows.size, this.cols.size)
     THEN \* lines 518-528
          FapResult(full.ret, "dense", full.rk, heap0, used, used, 0, 0,
                    FALSE, "none", full.acc)
     ELSE IF Len(used) > 1 /\ dotruncate
     THEN \* lines 626-627
          FapResult(t.ret, "concat", t.rk, heap, used, ro.used, ro.pivA, ro.pivB,
                    TRUE, t.path, <<>>)
     ELSE FapResult("return", "concat", rk, heap, used, ro.used, ro.pivA, ro.pivB,
                    FALSE, "none", <<>>)

-----------------------------------------------------------------------------
(* gemmRk (lines 1025-1121).  An H-matrix node is a leaf (null, Rk of rank  *)
(* k, or full) or has 2 x 2 children, each a pointer.                       *)

HLeaf(rows, cols, kind, k) ==
  [rows |-> rows, cols |-> cols, leaf |-> TRUE, kind |-> kind, k |-> k, ch |-> <<>>]

HNode(rows, cols, ch) ==
  [rows |-> rows, cols |-> cols, leaf |-> FALSE, kind |-> "node", k |-> 0, ch |-> ch]

get(h, i, j) == h.ch[i + 1][j + 1]

isVoid(h) == h.rows.size = 0 /\ h.cols.size = 0

\* the outcome of one of the loops of lines 1034-1049 and 1050-1065: the node
\* the loop ends on, and whether it read through an absent (null) child
Pruned(ret, h, deref) == [ret |-> ret, h |-> h, deref |-> deref]

\* what a call that goes on after a read through a null HMatrix pointer takes
\* the node for: U says how the sizes it read compare to 0
GarbageLeaf(U) ==
  HLeaf(IndexSet(0, Bit(U # "void")), IndexSet(0, Bit(U # "void")), "null", 0)

\* One loop, from the pointer p.  get(0, 0) is read without a test (lines
\* 1037 and 1053), and the node the loop moves to is read by isLeaf() (lines
\* 1034 and 1050): through a null pointer the read is undefined, and U is its
\* outcome, a crash or sizes that are ("void") or are not 0.
RECURSIVE Prune(_, _, _)
PruneSecond(p, U, deref) ==
  IF get(p[1], 1, 1) # NULL /\ isVoid(get(p[1], 1, 1)[1])
  THEN Prune(get(p[1], 0, 0), U, deref)                              \* line 1044
  ELSE Pruned("return", p[1], deref)                                 \* line 1048

Prune(p, U, deref) ==
  IF p = NULL
  THEN Pruned(IF U = "crash" THEN "crash" ELSE "return", GarbageLeaf(U), TRUE)
  ELSE IF p[1].leaf THEN Pruned("return", p[1], deref)
  ELSE IF get(p[1], 0, 0) = NULL
  THEN CASE U = "crash" -> Pruned("crash", p[1], TRUE)
         [] U = "void"  -> Prune(get(p[1], 1, 1), U, TRUE)
         [] OTHER       -> PruneSecond(p, U, TRUE)
  ELSE IF isVoid(get(p[1], 0, 0)[1])
  THEN Prune(get(p[1], 1, 1), U, deref)                              \* line 1039
  ELSE PruneSecond(p, U, deref)

opRows(trans, h) == IF trans = "N" THEN h.rows ELSE h.cols
opCols(trans, h) == IF trans = "N" THEN h.cols ELSE h.rows

\* HMatrix::multiplyRkMatrix: an Rk over the rows of op(ha) and the columns of
\* op(hb), of the rank of the Rk operand
multiplyRkMatrix(transHA, transHB, ha, hb) ==
  LET k == IF ha.kind = "rk" THEN ha.k ELSE hb.k
      r == opRows(transHA, ha)
      c == opCols(transHB, hb)
  IN IF k = 0 THEN RkMatrix(NULL, r, NULL, c, NoCompression)
     ELSE RkMatrix(Ptr(ScalarArray(r.size, k, FALSE, Val("mul"))), r,
                   Ptr(ScalarArray(c.size, k, FALSE, Val("mul"))), c, NoCompression)

\* HMatrix::multiplyFullMatrix: the dense product
multiplyFullMatrix(transHA, transHB, ha, hb) ==
  Ptr(FullMatrix(opRows(transHA, ha), opCols(transHB, hb)))

\* what a call of gemmRk did: log lists the products that were accumulated,
\* deref says whether the pruning read through an absent child
GemmResult(ret, path, this, tmpRk, mat, parts, log, deref) ==
  [ret |-> ret, path |-> path, this |-> this, tmp |-> tmpRk, mat |-> mat,
   parts |-> parts, log |-> log, deref |-> deref]

\* lines 1096 and 472: the finished temporary is swapped in
gemmRkDone(g) ==
  IF g.tmp = NULL \/ g.ret # "return" THEN g.this ELSE swap(g.this, g.tmp[1]).this

\* lines 1082-1084: subRks[i + j * nbRows], created empty when still NULL
SubTarget(sub, transHA, transHB, a, b) ==
  IF sub.rk = NULL
  THEN RkMatrix(NULL, opRows(transHA, a), NULL, opCols(transHB, b), NoCompression)
  ELSE sub.rk[1]

\* line 1088: subRks[i + j * nbRows] after one more gemmRk on it
SubResult(sub, g) ==
  [rk |-> Ptr(gemmRkDone(g)), ret |-> g.ret, log |-> sub.log \o g.log,
   deref |-> sub.deref \/ g.deref]

\* lines 1116-1119 and 1094: the temporary formattedAddParts returns
GemmAdd(path, mat, add, log, deref) ==
  GemmResult(add.ret, path, add.this, Ptr(add.rk), mat, add.parts, log, deref)

\* a leaf product that multiplies a null leaf as if it were dense
LeafProduct_nullAsFull(transHA, transHB, ha, hb, K) ==
  IF ha.kind = "rk" \/ hb.kind = "rk"
  THEN Ptr(multiplyRkMatrix(transHA, transHB, ha, hb))
  ELSE Ptr(truncatedSvd(multiplyFullMatrix(transHA, transHB, ha, hb)[1].rows_,
                        multiplyFullMatrix(transHA, transHB, ha, hb)[1].cols_,
                        env.eps, K))

\* lines 1102-1115: the product of two blocks of which one is a leaf
LeafProduct(transHA, transHB, ha, hb, K) ==
  IF (ha.leaf /\ ha.kind = "null") \/ (hb.leaf /\ hb.kind = "null")
  THEN NULL
  ELSE IF ha.kind = "rk" \/ hb.kind = "rk"
  THEN Ptr(multiplyRkMatrix(transHA, transHB, ha, hb))
  ELSE Ptr(truncatedSvd(multiplyFullMatrix(transHA, transHB, ha, hb)[1].rows_,
                        multiplyFullMatrix(transHA, transHB, ha, hb)[1].cols_,
                        env.eps, K))

\* subRks[] as passed to formattedAddParts
SubPtrs(subs) == <<subs[1].rk, subs[2].rk, subs[3].rk, subs[4].rk>>

\* a combination that applies the coefficient 2 to every sub-block
alphaV_two == <<2, 2, 2, 2>>

\* line 1094: the coefficients of the combination, all 1
alphaV == <<1, 1, 1, 1>>

\* the products accumulated into a sub-block, once it is added with coefficient c
Scaled(log, c) == [n \in 1..Len(log) |-> [log[n] EXCEPT !.coef = @ * c]]

SubLog(subs, coefs) ==
  Scaled(subs[1].log, coefs[1]) \o Scaled(subs[2].log, coefs[2])
  \o Scaled(subs[3].log, coefs[3]) \o Scaled(subs[4].log, coefs[4])

SubDeref(subs) == \E c \in 1..4 : subs[c].deref

\* lines 1092-1094: the recursion case once subRks[] is filled
gemmRkSubs(this, K, subs, coefs) ==
  IF \E c \in 1..4 : subs[c].ret # "return"
  THEN GemmResult(IF \E c \in 1..4 : subs[c].ret = "crash" THEN "crash" ELSE "abort",
                  "recursion", this, NULL, SubPtrs(subs), SubPtrs(subs),
                  SubLog(subs, coefs), SubDeref(subs))
  ELSE GemmAdd("recursion", SubPtrs(subs),
               formattedAddParts(this, coefs, SubPtrs(subs), TRUE, K),
               SubLog(subs, coefs), SubDeref(subs))

\* the product of the blocks ha and hb, accumulated with alpha into the block
\* over (rows, cols)
LeafEntry(this, alpha, ha, hb) ==
  [rows |-> this.rows, cols |-> this.cols, a |-> <<ha.rows, ha.cols>>,
   b |-> <<hb.rows, hb.cols>>, coef |-> alpha]

\* lines 1116-1119: axpy(alpha, rk) when the product is not NULL
gemmRkLeaf(this, alpha, rk, K, entry) ==
  IF rk = NULL
  THEN GemmResult("return", "nothing", this, NULL, <<>>, <<>>, <<>>, FALSE)
  ELSE GemmAdd("leaf", <<rk>>, formattedAddParts(this, <<alpha>>, <<rk>>, TRUE, K),
               <<entry>>, FALSE)

NoSub == [rk |-> NULL, ret |-> "return", log |-> <<>>, deref |-> FALSE]

\* the outcome of a call whose pruning read through an absent child
WithDeref(g, deref) == [g EXCEPT !.deref = @ \/ deref]

\* gemmRk up to the formattedAddParts that builds the temporary; the sub-blocks
\* of the recursion case are local objects and are run to completion.  n counts
\* the passes of the loops of lines 1076-1091 over (i, j, k), k innermost, and
\* subs is subRks[] with the outcome of each entry.
RECURSIVE gemmRkBuild(_, _, _, _, _, _, _, _)
RECURSIVE SubRks(_, _, _, _, _, _, _, _, _)
RECURSIVE gemmRkLeaves(_, _, _, _, _, _, _, _)
SubRks(subs, transHA, transHB, alpha, ha, hb, K, U, n) ==
  LET k == n % 2
      j == (n \div 2) % 2
      i == n \div 4
      c == 1 + i + 2 * j
      aik == IF transHA = "N" THEN get(ha, i, k) ELSE get(ha, k, i)
      bkj == IF transHB = "N" THEN get(hb, k, j) ELSE get(hb, j, k)
  IN IF n = 8 THEN subs
     ELSE IF aik # NULL /\ bkj # NULL /\ subs[c].ret = "return"
     THEN SubRks([subs EXCEPT ![c] =
                    SubResult(@, gemmRkBuild(SubTarget(@, transHA, transHB, aik[1], bkj[1]),
                                             transHA, transHB, alpha, aik[1], bkj[1], K, U))],
                 transHA, transHB, alpha, ha, hb, K, U, n + 1)
     ELSE SubRks(subs, transHA, transHB, alpha, ha, hb, K, U, n + 1)

\* lines 1067-1121, after the two loops that prune ha and hb
gemmRkLeaves(this, transHA, transHB, alpha, ha, hb, K, U) ==
  IF ha.rows.size = 0 \/ ha.cols.size = 0 \/ hb.rows.size = 0 \/ hb.cols.size = 0
  THEN \* line 1067
       GemmResult("return", "void", this, NULL, <<>>, <<>>, <<>>, FALSE)
  ELSE IF ~(ha.leaf \/ hb.leaf)
  THEN \* lines 1070-1100
       gemmRkSubs(this, K,
                  SubRks(<<NoSub, NoSub, NoSub, NoSub>>,
                         transHA, transHB, alpha, ha, hb, K, U, 0),
                  alphaV)
  ELSE gemmRkLeaf(this, alpha, LeafProduct(transHA, transHB, ha, hb, K), K,
                  LeafEntry(this, alpha, ha, hb))

\* lines 1066-1121 on what the two loops ended on
gemmRkPruned(this, transHA, transHB, alpha, pa, pb, K, U) ==
  IF pa.ret = "crash" \/ pb.ret = "crash"
  THEN GemmResult("crash", "prune", this, NULL, <<>>, <<>>, <<>>, TRUE)
  ELSE WithDeref(gemmRkLeaves(this, transHA, transHB, alpha, pa.h, pb.h, K, U),
                 pa.deref \/ pb.deref)

gemmRkBuild(this, transHA, transHB, alpha, ha0, hb0, K, U) ==
  gemmRkPruned(this, transHA, transHB, alpha,
               Prune(Ptr(ha0), U, FALSE), Prune(Ptr(hb0), U, FALSE), K, U)

-----------------------------------------------------------------------------
(* Mixed products (lines 661-996).  A product panel records the gemm or     *)
(* gemv that filled it: the operation applied to the dense or H operand and *)
(* the content of the panel it was applied to.  U is the outcome of a read  *)
(* through a NULL panel pointer: a crash, or a call that goes on with       *)
(* whatever the read gave.                                                  *)

MulResult(ret, rk) == [ret |-> ret, rk |-> rk]

\* new RkMatrix(a, rows, b, cols, method): the constructor and its assertions
\* (lines 70-87)
NewRk(a, rows, b, cols, method) ==
  IF CtorAsserts(RkMatrix(a, rows, b, cols, method))
  THEN MulResult("return", Ptr(RkMatrix(a, rows, b, cols, method)))
  ELSE MulResult("abort", NULL)

\* ScalarArray::gemm / HMatrix::gemv into a fresh rows x b.cols panel
Product(rows, trans, b) ==
  ScalarArray(rows, b.cols, FALSE,
              [id |-> "gemm", coef |-> 1, conj |-> FALSE, trans |-> trans, of |-> b.val])

\* the panel that is copied and the panel that is multiplied (std::swap(a, b)
\* when the Rk is transposed)
PanelA(trans, rk) == IF trans = "N" THEN rk.a[1] ELSE rk.b[1]
PanelB(trans, rk) == IF trans = "N" THEN rk.b[1] ELSE rk.a[1]

\* the copy of the free panel, conjugated for 'C'
FreeCopy(trans, p) == IF trans = "C" THEN ScalarArray_conjugate(p) ELSE p

\* a read through a NULL panel pointer
NullRead(U, rows, cols, method) ==
  IF U.kind = "crash" THEN MulResult("crash", NULL)
  ELSE NewRk(Ptr(U.a), rows, Ptr(U.b), cols, method)

\* lines 692-720 and 805-835: newB of Rk x Full and Rk x H, from the operand of
\* rows() x cols() = (rows, cols) and the contracted panel b
ProductRight(transR, transM, rows, cols, b) ==
  LET n == IF transM = "N" THEN cols.size ELSE rows.size
  IN IF transR = "C"
     THEN CASE transM = "N" -> ScalarArray_conjugate(Product(n, "C", b))
            [] transM = "T" -> Product(n, "N", ScalarArray_conjugate(b))
            [] OTHER        -> ScalarArray_conjugate(Product(n, "N", b))
     ELSE CASE transM = "N" -> Product(n, "T", b)
            [] transM = "T" -> Product(n, "N", b)
            [] OTHER        -> ScalarArray_conjugate(
                                 Product(n, "N", ScalarArray_conjugate(b)))

\* lines 748-766 and 869-887: newA of Full x Rk and H x Rk
ProductLeft(transM, transR, rows, cols, a) ==
  LET m == IF transM = "N" THEN rows.size ELSE cols.size
  IN IF transR = "C"
     THEN CASE transM = "N" -> Product(m, "N", ScalarArray_conjugate(a))
            [] transM = "T" -> ScalarArray_conjugate(Product(m, "C", a))
            [] OTHER        -> ScalarArray_conjugate(Product(m, "T", a))
     ELSE Product(m, transM, a)

\* RkMatrix::multiplyRkFull (lines 661-725)
multiplyRkFull(transR, transM, rk, m) ==
  LET rkRows == IF transR = "N" THEN rk.rows ELSE rk.cols
      mCols  == IF transM = "N" THEN m.cols_ ELSE m.rows_
  IN IF (IF transR = "N" THEN rk.cols.size ELSE rk.rows.size)
        # (IF transM = "N" THEN m.rows_.size ELSE m.cols_.size)
     THEN MulResult("abort", NULL)                                   \* line 666
     ELSE IF rank(rk) = 0
     THEN NewRk(NULL, rkRows, NULL, mCols, NoCompression)            \* lines 670-672
     ELSE NewRk(Ptr(FreeCopy(transR, PanelA(transR, rk))), rkRows,
                Ptr(ProductRight(transR, transM, m.rows_, m.cols_, PanelB(transR, rk))),
                mCols, rk.method)

\* RkMatrix::multiplyFullRk (lines 727-772): b->cols is read at line 748
multiplyFullRk(transM, transR, m, rk, U) ==
  LET rkCols == IF transR = "N" THEN rk.cols ELSE rk.rows
      mRows  == IF transM = "N" THEN m.rows_ ELSE m.cols_
  IN IF rk.a = NULL
     THEN NullRead(U, mRows, rkCols, rk.method)
     ELSE NewRk(Ptr(ProductLeft(transM, transR, m.rows_, m.cols_, PanelA(transR, rk))),
                mRows,
                Ptr(FreeCopy(transR, PanelB(transR, rk))), rkCols, rk.method)

\* RkMatrix::multiplyRkH (lines 774-837): a->copy() is called at line 805
multiplyRkH(transR, transH, rk, h, U) ==
  LET rkRows  == IF transR = "N" THEN rk.rows ELSE rk.cols
      newCols == IF transH = "N" THEN h.cols ELSE h.rows
  IN IF (IF transR = "N" THEN rk.cols ELSE rk.rows)
        # (IF transH = "N" THEN h.rows ELSE h.cols)
     THEN MulResult("abort", NULL)                                   \* line 778
     ELSE IF rk.a = NULL
     THEN NullRead(U, rkRows, newCols, rk.method)
     ELSE NewRk(Ptr(FreeCopy(transR, PanelA(transR, rk))), rkRows,
                Ptr(ProductRight(transR, transH, h.rows, h.cols, PanelB(transR, rk))),
                newCols, rk.method)

\* multiplyHRk that takes the rows of h whatever transH is
multiplyHRk_rowsOfH(transH, transR, h, rk) ==
  LET rkCols == IF transR = "N" THEN rk.cols ELSE rk.rows
  IN IF rank(rk) = 0
     THEN NewRk(NULL, h.rows, NULL, rkCols, rk.method)
     ELSE NewRk(Ptr(ProductLeft(transH, transR, h.rows, h.cols, PanelA(transR, rk))),
                h.rows,
                Ptr(FreeCopy(transR, PanelB(transR, rk))), rkCols, rk.method)

\* RkMatrix::multiplyHRk (lines 839-890)
multiplyHRk(transH, transR, h, rk) ==
  LET rkCols  == IF transR = "N" THEN rk.cols ELSE rk.rows
      newRows == IF transH = "N" THEN h.rows ELSE h.cols
  IN IF rank(rk) = 0
     THEN NewRk(NULL, newRows, NULL, rkCols, rk.method)              \* lines 844-848
     ELSE NewRk(Ptr(ProductLeft(transH, transR, h.rows, h.cols, PanelA(transR, rk))),
                newRows,
                Ptr(FreeCopy(transR, PanelB(transR, rk))), rkCols, rk.method)

\* lines 920-930: tmp = t^b1.a2, rank1 x rank2
MidMatrix(trans1, trans2, b1, a2) ==
  [rows |-> b1.cols, cols |-> a2.cols,
   trans |-> IF (trans1 = "C") # (trans2 = "C") THEN "C" ELSE "T",
   conj  |-> trans2 = "C",
   b1 |-> b1.val, a2 |-> a2.val]

\* a panel times the mid-matrix or one of its factors: rows x k
MidProduct(p, k, trans, mid, conj) ==
  ScalarArray(p.rows, k, FALSE,
              [id |-> "gemm", coef |-> 1, conj |-> conj, trans |-> trans,
               of |-> p.val, mid |-> mid])

\* lines 934-965: the SVD-in-the-middle of HMAT_NEW_RKRK
multiplyRkRk_new(trans1, trans2, r1, r2, K) ==
  LET a1   == PanelA(trans1, r1)
      b2   == PanelB(trans2, r2)
      mid  == MidMatrix(trans1, trans2, PanelB(trans1, r1), PanelA(trans2, r2))
      newK == findK(Sigma(K.prof, Min(mid.rows, mid.cols)), env.eps, env.k, env.L2, 0)
  IN IF newK > 0
     THEN <<Ptr(MidProduct(a1, newK, "N", [mid EXCEPT !.conj = @ # (trans1 = "C")],
                           trans1 = "C")),
            Ptr(MidProduct(b2, newK, "N", [mid EXCEPT !.conj = @ # (trans2 = "C")],
                           trans2 = "C"))>>
     ELSE <<NULL, NULL>>

\* the default policy that always keeps the panel of the first operand
multiplyRkRk_firstSide(trans1, trans2, r1, r2) ==
  <<Ptr(FreeCopy(trans1, PanelA(trans1, r1))),
    Ptr(MidProduct(PanelB(trans2, r2), rank(r1), IF trans2 = "C" THEN "C" ELSE "T",
                   MidMatrix(trans1, trans2, PanelB(trans1, r1), PanelA(trans2, r2)),
                   trans2 = "C"))>>

\* lines 966-987: the default policy
multiplyRkRk_old(trans1, trans2, r1, r2) ==
  LET a1  == PanelA(trans1, r1)
      b2  == PanelB(trans2, r2)
      mid == MidMatrix(trans1, trans2, PanelB(trans1, r1), PanelA(trans2, r2))
  IN IF rank(r1) < rank(r2)
     THEN <<Ptr(FreeCopy(trans1, a1)),
            Ptr(MidProduct(b2, rank(r1), IF trans2 = "C" THEN "C" ELSE "T", mid,
                           trans2 = "C"))>>
     ELSE <<Ptr(MidProduct(a1, rank(r2), "N",
                           [mid EXCEPT !.conj = @ # (trans1 = "C")], trans1 = "C")),
            Ptr(FreeCopy(trans2, b2))>>

\* lines 989-990: the Rk built from the two panels
MulPanels(rows, cols, method, panels) ==
  NewRk(panels[1], rows, panels[2], cols, method)

\* RkMatrix::multiplyRkRk (lines 892-996): b1->rows and a2->rows are read at
\* line 903
multiplyRkRk(trans1, trans2, r1, r2, K, U) ==
  LET newRows  == IF trans1 = "N" THEN r1.rows ELSE r1.cols
      newCols  == IF trans2 = "N" THEN r2.cols ELSE r2.rows
      combined == Min(r1.method, r2.method)                          \* line 990
  IN IF (IF trans1 = "N" THEN r1.cols ELSE r1.rows)
        # (IF trans2 = "N" THEN r2.rows ELSE r2.cols)
     THEN MulResult("abort", NULL)                                   \* line 896
     ELSE IF r1.a = NULL \/ r2.a = NULL
     THEN NullRead(U, newRows, newCols, combined)
     ELSE IF PanelB(trans1, r1).rows # PanelA(trans2, r2).rows
     THEN MulResult("abort", NULL)                                   \* line 903
     ELSE MulPanels(newRows, newCols, combined,
                    IF env.NEWRKRK THEN multiplyRkRk_new(trans1, trans2, r1, r2, K)
                    ELSE multiplyRkRk_old(trans1, trans2, r1, r2))

-----------------------------------------------------------------------------
(* Inputs *)

Env(k, eps, l2, initpiv, mgs, bestrk, newrkrk) ==
  [k |-> k, eps |-> eps, L2 |-> l2, INITPIV |-> initpiv, MGS |-> mgs,
   BESTRK |-> bestrk, NEWRKRK |-> newrkrk]

EpsInputs == {Eps(0, 1), Eps(1, 2)}

\* configurations of approx and of the environment the Rk state machine runs
\* under: the default, Gram-Schmidt recompression with initial pivots and the
\* L2 criterion, and a fixed target rank
EnvInputs ==
  { Env(0, Eps(0, 1), FALSE, FALSE, FALSE, FALSE, FALSE),
    Env(0, Eps(1, 2), TRUE, TRUE, TRUE, FALSE, FALSE) }
  \cup {Env(k, Eps(0, 1), FALSE, FALSE, FALSE, FALSE, FALSE) : k \in 1..(MaxCfgK - 1)}

InputMethods == {NoCompression, NoCompression + 1}

\* a panel can be flagged ortho only when it has no more columns than rows
OrthoInputs(m, n, k) ==
  {o \in {<<FALSE, FALSE>>, <<TRUE, TRUE>>} : (o[1] => k <= m) /\ (o[2] => k <= n)}

\* an Rk of rank k over (rows, cols) as its producer constructs it
RkInput(rows, cols, k, o, method) ==
  IF k = 0 THEN RkMatrix(NULL, rows, NULL, cols, method)
  ELSE RkMatrix(Ptr(ScalarArray(rows.size, k, o[1], Val("in"))), rows,
                Ptr(ScalarArray(cols.size, k, o[2], Val("in"))), cols, method)

RkInputs(rows, cols, methods) ==
  {RkInput(rows, cols, 0, <<FALSE, FALSE>>, me) : me \in methods}
  \cup UNION {{RkInput(rows, cols, k, o, me) :
                 o \in OrthoInputs(rows.size, cols.size, k), me \in methods} :
              k \in 1..MaxRank}

SelfInputs ==
  UNION {RkInputs(IndexSet(0, m), IndexSet(0, n), InputMethods) :
           m \in 1..MaxDim, n \in 1..MaxDim}

\* the sub-ranges of an index set a contribution may live on
Left(is)  == IndexSet(is.offset, is.size \div 2)
Right(is) == IndexSet(is.offset + is.size \div 2, is.size - is.size \div 2)
Empty(is) == IndexSet(is.offset, 0)

PartInput(rows, cols, k, o, method, alpha) ==
  [part |-> Ptr(RkInput(rows, cols, k, o, method)), alpha |-> alpha]

\* the contributions offered to a block over (rows, cols): each way of being
\* dropped by the filter, and kept parts that differ in support, rank, ortho
\* flags, method and coefficient
PartInputs(rows, cols) ==
  { [part |-> NULL, alpha |-> 1],
    PartInput(rows, cols, 0, <<FALSE, FALSE>>, NoCompression - 1, 2),
    PartInput(Empty(rows), cols, 1, <<TRUE, TRUE>>, NoCompression - 1, 2),
    PartInput(rows, Empty(cols), 1, <<TRUE, TRUE>>, NoCompression - 1, 2),
    PartInput(rows, cols, 1, <<TRUE, TRUE>>, NoCompression - 1, 0),
    PartInput(Left(rows), Left(cols), 1, <<TRUE, TRUE>>, NoCompression, 1),
    PartInput(Right(rows), Right(cols), 1, <<TRUE, TRUE>>, NoCompression + 1, 1),
    PartInput(rows, cols, 1, <<FALSE, FALSE>>, NoCompression, 2),
    PartInput(rows, cols, 2, <<TRUE, FALSE>>, NoCompression + 1, 1),
    PartInput(Left(rows), Right(cols), 1, <<FALSE, TRUE>>, NoCompression + 1, 2),
    PartInput(Right(rows), Left(cols), 1, <<TRUE, TRUE>>, NoCompression, 2) }
  \cup (IF Left(rows).size >= 2
        THEN {PartInput(Left(rows), Left(cols), 2, <<TRUE, FALSE>>, NoCompression, 1)}
        ELSE {})

\* the matrices handed to axpy on a block over (rows, cols)
AxpyInputs(rows, cols) ==
  { PartInput(rows, cols, 1, <<TRUE, TRUE>>, NoCompression, 0),
    PartInput(rows, cols, 1, <<FALSE, FALSE>>, NoCompression, 2),
    PartInput(Right(rows), Right(cols), 1, <<TRUE, TRUE>>, NoCompression + 1, 1),
    PartInput(rows, cols, 2, <<FALSE, FALSE>>, NoCompression + 1, 1) }

\* kernel outcomes: each profile of singular values, an SVD that reports a
\* failure, and (where Gram-Schmidt runs) columns dropped from a or from b
KernelInputs(mgs) ==
  {Kernel(p, FALSE, 0, 0, NoCompression + 1) : p \in Profiles}
  \cup { Kernel("flat", TRUE, 0, 0, NoCompression),
         Kernel("zero", TRUE, 0, 0, NoCompression) }
  \cup (IF mgs
        THEN { Kernel("flat", FALSE, 1, 0, NoCompression),
               Kernel("flat", TRUE, 0, 1, NoCompression),
               Kernel("flat", FALSE, MaxDim, 0, NoCompression) }
        ELSE {})

\* kernel outcomes drawn for one gemmRk: every product keeps or loses a rank
GemmKernels ==
  {Kernel(p, FALSE, 0, 0, NoCompression + 1) : p \in {"flat", "tail0"}}

\* initial pivots handed to truncate on an Rk of rank k, in and out of [0, k]
PivotInputs(k) == {<<0, 0>>, <<k, k>>, <<-1, 0>>, <<0, k + 1>>}

AlphaInputs == 0..MaxCoef

\* what a read through an absent child of an H-matrix node leads to: a crash,
\* or sizes read as 0 or as not 0
NullChildReads == {"crash", "void", "nonvoid"}

\* a 2 x 2 node over (rows, cols) with leaves of the given kinds as children;
\* the kind "absent" is a null child pointer
Child(rows, cols, kind) ==
  IF kind = "absent" THEN NULL
  ELSE Ptr(HLeaf(rows, cols, kind, IF kind = "rk" THEN 1 ELSE 0))

Split(rows, cols, kinds) ==
  HNode(rows, cols,
        << <<Child(Left(rows), Left(cols), kinds[1]),
             Child(Left(rows), Right(cols), kinds[2])>>,
           <<Child(Right(rows), Left(cols), kinds[3]),
             Child(Right(rows), Right(cols), kinds[4])>> >>)

GemmInput(transHA, transHB, alpha, ha, hb) ==
  [transHA |-> transHA, transHB |-> transHB, alpha |-> alpha, ha |-> ha, hb |-> hb]

\* the products accumulated into a block over (rows, cols): each leaf case, a
\* void operand, a node with a void diagonal child, and the recursion case
\* with and without transposition
GemmInputs(rows, cols) ==
  LET mid == IndexSet(0, MaxDim)
      one == IndexSet(0, 1)
  IN { GemmInput("N", "N", 2, HLeaf(rows, mid, "rk", 1), HLeaf(mid, cols, "full", 0)),
       GemmInput("N", "N", 1, HLeaf(rows, mid, "full", 0), HLeaf(mid, cols, "full", 0)),
       GemmInput("N", "N", 1, HLeaf(rows, mid, "null", 0),
                 Split(mid, cols, <<"full", "full", "full", "full">>)),
       GemmInput("N", "N", 1, HLeaf(rows, Empty(mid), "full", 0),
                 HLeaf(Empty(mid), cols, "full", 0)),
       GemmInput("N", "N", 1, Split(rows, one, <<"full", "full", "full", "rk">>),
                 HLeaf(one, cols, "full", 0)),
       GemmInput("N", "N", 1, Split(rows, mid, <<"rk", "full", "absent", "rk">>),
                 Split(mid, cols, <<"full", "null", "rk", "full">>)),
       GemmInput("T", "N", 2, Split(mid, rows, <<"rk", "rk", "full", "rk">>),
                 Split(mid, cols, <<"rk", "absent", "full", "rk">>)) }

-----------------------------------------------------------------------------
(* The Rk state machine: one action per method of RkMatrix *)

Idle == pc = "idle"

\* call describes the last truncation or accumulation call; the elementary
\* operations report nothing
NoCall == [op |-> "none"]

Init ==
  /\ env \in EnvInputs
  /\ self \in SelfInputs
  /\ CtorAsserts(self)
  /\ tmp = NULL
  /\ pc = "idle"
  /\ nodes = <<>>
  /\ call = NoCall

\* the scaling coefficient tracked on a panel is capped at MaxCoef
Scale ==
  /\ Idle
  /\ \E alpha \in AlphaInputs :
       /\ self.a # NULL => self.a[1].val.coef * alpha <= MaxCoef
       /\ self' = scale(self, alpha)
       /\ call' = NoCall
  /\ UNCHANGED <<env, tmp, pc, nodes>>

Transpose ==
  /\ Idle
  /\ self' = transpose(self)
  /\ call' = NoCall
  /\ UNCHANGED <<env, tmp, pc, nodes>>

Conjugate ==
  /\ Idle
  /\ self' = conjugate(self)
  /\ call' = NoCall
  /\ UNCHANGED <<env, tmp, pc, nodes>>

Clear ==
  /\ Idle
  /\ self' = clear(self)
  /\ call' = NoCall
  /\ UNCHANGED <<env, tmp, pc, nodes>>

Swap ==
  /\ Idle
  /\ \E other \in RkInputs(self.rows, self.cols, InputMethods) :
       /\ swapAsserts(self, other)
       /\ self' = swap(self, other).this
       /\ call' = NoCall
  /\ UNCHANGED <<env, tmp, pc, nodes>>

Copy ==
  /\ Idle
  /\ \E o \in SelfInputs :
       /\ o.method = NoCompression
       /\ self' = copy(self, o)
       /\ call' = NoCall
  /\ UNCHANGED <<env, tmp, pc, nodes>>

\* what a truncation call leaves in call: the rank and pivots it was called
\* with, the path it took, the assertion it stopped on, the status of the SVD
TruncCall(op, rk, pA, pB, t) ==
  [op |-> op, k0 |-> rank(rk), pA |-> pA, pB |-> pB, path |-> t.path,
   abortAt |-> t.abortAt, svdFailed |-> t.svdFailed]

Truncate ==
  /\ Idle
  /\ \E epsilon \in EpsInputs, p \in PivotInputs(rank(self)), K \in KernelInputs(env.MGS) :
       LET t == truncate(self, epsilon, p[1], p[2], K)
       IN /\ self' = t.rk
          /\ pc' = IF t.ret = "abort" THEN "aborted" ELSE "idle"
          /\ call' = TruncCall("truncate", self, p[1], p[2], t)
  /\ UNCHANGED <<env, tmp, nodes>>

\* mGSTruncate called directly
MGSTruncate ==
  /\ Idle
  /\ \E epsilon \in EpsInputs, K \in KernelInputs(TRUE) :
       LET t == mGSTruncate(self, epsilon, 0, 0, K)
       IN /\ self' = t.rk
          /\ call' = TruncCall("mGSTruncate", self, 0, 0, t)
  /\ UNCHANGED <<env, tmp, pc, nodes>>

\* axpy(alpha, const RkMatrix* mat), line 470: formattedAddParts builds tmp;
\* call keeps the argument as passed (mat) and as left by the call (parts)
AxpyBuild ==
  /\ Idle
  /\ \E in \in AxpyInputs(self.rows, self.cols), K \in KernelInputs(env.MGS) :
       \E r \in {formattedAddParts(self, <<in.alpha>>, <<in.part>>, TRUE, K)} :
          /\ self' = r.this
          /\ tmp' = Ptr(r.rk)
          /\ pc' = IF r.ret = "abort" THEN "aborted" ELSE "axpy"
          /\ call' = [op |-> "axpy", mat |-> <<in.part>>, parts |-> r.parts,
                      path |-> r.path]
  /\ UNCHANGED <<env, nodes>>

\* axpy(alpha, const FullMatrix* mat), line 464
AxpyFullBuild ==
  /\ Idle
  /\ \E K \in KernelInputs(FALSE), rs \in {self.rows, Right(self.rows)} :
       LET mat == <<Ptr(FullMatrix(rs, self.cols))>>
           r   == formattedAddPartsFull(self, <<MaxCoef>>, mat, K)
       IN /\ tmp' = Ptr(r.rk)
          /\ pc' = IF r.ret = "abort" THEN "aborted" ELSE "axpy"
          /\ call' = [op |-> "axpyFull", mat |-> mat, parts |-> mat, path |-> "dense"]
  /\ UNCHANGED <<env, self, nodes>>

\* lines 465-466 and 471-472: swap(*tmp); delete tmp
AxpySwap ==
  /\ pc = "axpy"
  /\ swapAsserts(self, tmp[1])
  /\ self' = swap(self, tmp[1]).this
  /\ tmp' = NULL
  /\ pc' = "idle"
  /\ call' = NoCall
  /\ UNCHANGED <<env, nodes>>

\* gemmRk up to the construction of the temporary
GemmRkBuild ==
  /\ Idle
  /\ \E in \in GemmInputs(self.rows, self.cols), K \in GemmKernels, U \in NullChildReads :
       \E g \in {gemmRkBuild(self, in.transHA, in.transHB, in.alpha, in.ha, in.hb, K, U)} :
          /\ self' = g.this
          /\ tmp' = g.tmp
          /\ pc' = IF g.ret = "abort" THEN "aborted"
                   ELSE IF g.ret = "crash" THEN "crashed"
                   ELSE IF g.tmp = NULL THEN "idle"
                   ELSE IF g.path = "leaf" THEN "axpy" ELSE "gemm"
          /\ call' = [op |-> "gemmRk", mat |-> g.mat, parts |-> g.parts,
                      path |-> g.path]
  /\ UNCHANGED <<env, nodes>>

\* lines 1096-1100: swap(*rk), then the sub-blocks and rk are deleted
GemmRkSwap ==
  /\ pc = "gemm"
  /\ swapAsserts(self, tmp[1])
  /\ self' = swap(self, tmp[1]).this
  /\ tmp' = NULL
  /\ pc' = "idle"
  /\ call' = NoCall
  /\ UNCHANGED <<env, nodes>>

\* axpy(alpha, const RkMatrix* mat), lines 469-473, as one call
Axpy ==
  /\ Idle
  /\ \E in \in AxpyInputs(self.rows, self.cols), K \in KernelInputs(env.MGS) :
       \E r \in {formattedAddParts(self, <<in.alpha>>, <<in.part>>, TRUE, K)} :
          /\ r.ret # "abort" => swapAsserts(r.this, r.rk)
          /\ self' = IF r.ret = "abort" THEN r.this ELSE swap(r.this, r.rk).this
          /\ pc' = IF r.ret = "abort" THEN "aborted" ELSE "idle"
          /\ call' = [op |-> "axpy", path |-> r.path]
  /\ UNCHANGED <<env, tmp, nodes>>

\* axpy(alpha, const FullMatrix* mat), lines 463-467, as one call
AxpyFull ==
  /\ Idle
  /\ \E K \in KernelInputs(FALSE), rs \in {self.rows, Right(self.rows)} :
       LET mat == <<Ptr(FullMatrix(rs, self.cols))>>
           r   == formattedAddPartsFull(self, <<MaxCoef>>, mat, K)
       IN /\ r.ret # "abort" => swapAsserts(self, r.rk)
          /\ self' = IF r.ret = "abort" THEN self ELSE swap(self, r.rk).this
          /\ pc' = IF r.ret = "abort" THEN "aborted" ELSE "idle"
          /\ call' = [op |-> "axpyFull", path |-> "dense"]
  /\ UNCHANGED <<env, tmp, nodes>>

\* gemmRk, lines 1025-1121, as one call
GemmRk ==
  /\ Idle
  /\ \E in \in GemmInputs(self.rows, self.cols), K \in GemmKernels, U \in NullChildReads :
       \E g \in {gemmRkBuild(self, in.transHA, in.transHB, in.alpha, in.ha, in.hb, K, U)} :
          /\ (g.ret = "return" /\ g.tmp # NULL) => swapAsserts(g.this, g.tmp[1])
          /\ self' = gemmRkDone(g)
          /\ pc' = IF g.ret = "abort" THEN "aborted"
                   ELSE IF g.ret = "crash" THEN "crashed" ELSE "idle"
          /\ call' = [op |-> "gemmRk", path |-> g.path]
  /\ UNCHANGED <<env, tmp, nodes>>

Next ==
  \/ Scale
  \/ Transpose
  \/ Conjugate
  \/ Clear
  \/ Swap
  \/ Copy
  \/ Truncate
  \/ MGSTruncate
  \/ Axpy
  \/ AxpyFull
  \/ GemmRk

Spec == Init /\ [][Next]_vars

\* the accumulating calls alone, each in its two steps: the temporary is
\* built, then swapped into the block
NextAccum ==
  \/ AxpyBuild
  \/ AxpyFullBuild
  \/ AxpySwap
  \/ GemmRkBuild
  \/ GemmRkSwap

SpecAccum == Init /\ [][NextAccum]_vars

\* the shape an Rk block has to keep
ShapeOK(rk) ==
  /\ (rk.a = NULL) = (rk.b = NULL)
  /\ rk.a # NULL =>
       /\ rk.a[1].cols = rk.b[1].cols
       /\ rk.a[1].cols >= 1
       /\ rk.a[1].rows = rk.rows.size
       /\ rk.b[1].rows = rk.cols.size

\* C1: in every state reached by scale, transpose, conjugate, clear, swap, copy,
\* truncate, mGSTruncate, axpy and gemmRk, either both panels are absent or both
\* are present with the same column count k >= 1, a.rows = rows.size and
\* b.rows = cols.size; rank() = 0 exactly when both panels are absent
C1_ShapeInvariant ==
  /\ ShapeOK(self)
  /\ rank(self) = 0 <=> (self.a = NULL /\ self.b = NULL)

C1_Witness ==
  /\ pc = "idle"
  /\ call.op = "mGSTruncate"
  /\ call.k0 > 0
  /\ call.path = "mgs"
  /\ self.a = NULL
  /\ self.b = NULL

Building == {"axpy", "gemm"}

\* C2: formattedAddParts modifies neither the target nor any element of parts;
\* axpy and gemmRk change the target only by one swap of (a, b, method) with the
\* finished result, so the target holds its old panels until that swap and the
\* complete sum after it
C2_AtomicReplacement ==
  [][ /\ (pc = "idle" /\ call'.op \in {"axpy", "axpyFull", "gemmRk"}) =>
           /\ self' = self
           /\ call'.parts = call'.mat
           /\ pc' \in Building => (tmp' # NULL /\ ShapeOK(tmp'[1]))
      /\ pc \in Building =>
           /\ pc' = "idle"
           /\ self'.a = tmp[1].a /\ self'.b = tmp[1].b /\ self'.method = tmp[1].method
           /\ self'.rows = self.rows /\ self'.cols = self.cols
    ]_vars

C2_Witness ==
  /\ pc = "gemm"
  /\ call.path = "recursion"
  /\ Len(call.parts) = 4
  /\ tmp[1].a # NULL
  /\ self.a # NULL
  /\ self.a # tmp[1].a

-----------------------------------------------------------------------------
(* findK on its own: every call of findK on a vector of singular values    *)

\* the example of a fast-decaying spectrum, (10, 1e-8, 0) in units of 1e-8,
\* with the tolerance 1e-6
ExampleSigma == <<1000000000, 1, 0>>
ExampleEps == Eps(1, 1000000)

FindKInputs ==
  {[sigma |-> sg, epsilon |-> e] :
     sg \in SeqsUpTo(0..MaxSigma, MaxLen), e \in {Eps(0, 1), Eps(1, 2), Eps(1, 1)}}
  \cup {[sigma |-> ExampleSigma, epsilon |-> ExampleEps]}

InitFindK ==
  /\ env \in {Env(k, Eps(0, 1), l2, FALSE, FALSE, FALSE, FALSE) :
                k \in 0..MaxCfgK, l2 \in BOOLEAN}
  /\ self = NULL
  /\ tmp = NULL
  /\ pc = "call"
  /\ nodes = <<>>
  /\ \E in \in FindKInputs :
       \E oob \in (IF env.L2 /\ in.sigma = <<>> THEN 0..MaxSigma ELSE {0}) :
         call = [op |-> "findK", sigma |-> in.sigma, epsilon |-> in.epsilon, oob |-> oob]

FindK ==
  /\ pc = "call"
  /\ call.op = "findK"
  /\ tmp' = findK(call.sigma, call.epsilon, env.k, env.L2, call.oob)
  /\ pc' = "returned"
  /\ UNCHANGED <<env, self, call, nodes>>

NextFindK == FindK

SpecFindK == InitFindK /\ [][NextFindK]_vars

FindKReturned == pc = "returned" /\ call.op = "findK"

\* epsilon * S on the grid, S being the sum of sigma or, with the L2 criterion,
\* sigma[0] (there is no index to test when sigma is empty)
ThresholdOf(sigma, epsilon, l2) ==
  LET S == IF ~l2 THEN Sum(sigma) ELSE IF sigma = <<>> THEN 0 ELSE sigma[1]
  IN (epsilon.num * S) \div epsilon.den

\* C4: with configured rank 0, findK returns the smallest index i of
\* [0, len(sigma)] with sigma[i] <= eps * S (len(sigma) if there is none): every
\* sigma[j] before the result is strictly above the threshold, and the value at
\* the result, if there is one, is not; the example (10, 1e-8, 0) with eps = 1e-6
\* and the sum criterion gives 1
C4_FindKSmallestIndex ==
  (FindKReturned /\ env.k = 0) =>
    LET thr == ThresholdOf(call.sigma, call.epsilon, env.L2)
    IN /\ tmp \in 0..Len(call.sigma)
       /\ \A j \in 1..tmp : call.sigma[j] > thr
       /\ tmp < Len(call.sigma) => call.sigma[tmp + 1] <= thr
       /\ (call.sigma = ExampleSigma /\ call.epsilon = ExampleEps /\ ~env.L2) => tmp = 1

C4_Witness ==
  /\ FindKReturned
  /\ env.k = 0
  /\ ~env.L2
  /\ call.sigma = ExampleSigma
  /\ call.epsilon = ExampleEps
  /\ tmp = 1

\* C5: with a configured rank k other than 0, findK returns min(k, len(sigma))
\* whatever sigma and eps are, and never more than k
C5_FindKHardCap ==
  (FindKReturned /\ env.k # 0) =>
    /\ tmp = Min(env.k, Len(call.sigma))
    /\ tmp <= env.k

C5_Witness ==
  /\ FindKReturned
  /\ env.k = MaxCfgK
  /\ Len(call.sigma) < env.k
  /\ call.sigma # <<>>
  /\ call.sigma[1] > 0
  /\ tmp = Len(call.sigma)

-----------------------------------------------------------------------------
(* The truncations on their own: truncate and mGSTruncate applied, again  *)
(* and again, to every block the constructor accepts                       *)

NextTrunc ==
  \/ Truncate
  \/ MGSTruncate

SpecTrunc == Init /\ [][NextTrunc]_vars

Truncated == call.op \in {"truncate", "mGSTruncate"}

MinDim(rk) == Min(rk.rows.size, rk.cols.size)

PivotsInRange == call.pA \in 0..call.k0 /\ call.pB \in 0..call.k0

\* C3: when the small SVD inside truncate or mGSTruncate fails, the call returns
\* with the Rk unchanged: same panels a and b, same rank
C3_UnchangedOnSvdFailure ==
  [][(call'.op \in {"truncate", "mGSTruncate"} /\ call'.svdFailed) => self' = self]_vars

\* C6: after truncate or mGSTruncate returns normally on an Rk of rank k over an
\* m x n block, the new rank is at most min(k, min(m, n)), whichever of the QR,
\* MGS and dense paths ran
C6_RankNeverIncreases ==
  (Truncated /\ pc = "idle") => rank(self) <= Min(call.k0, MinDim(self))

C6_Witness ==
  /\ call.op = "truncate"
  /\ pc = "idle"
  /\ call.path = "dense"
  /\ call.k0 > MinDim(self)
  /\ rank(self) = MinDim(self)

\* C7 as stated: a pivot outside [0, k] makes truncate abort on the assertion,
\* whatever HMAT_TRUNC_INITPIV is
C7_AbortsForEveryToggle ==
  (call.op = "truncate" /\ ~PivotsInRange) =>
    (pc = "aborted" /\ call.abortAt = "pivot")

\* C7: a pivot outside [0, k] makes truncate abort on the assertion of lines
\* 202-203 when HMAT_TRUNC_INITPIV is set; when it is not set the pivots are
\* replaced by 0 before the assertion, which then passes, and the call goes on
\* as truncate(eps, 0, 0) does
C7_AbortsWhenToggleSet ==
  (call.op = "truncate" /\ ~PivotsInRange) =>
    IF env.INITPIV
    THEN pc = "aborted" /\ call.abortAt = "pivot"
    ELSE call.abortAt # "pivot" /\ (pc = "idle" <=> call.abortAt = "none")

C7_Witness ==
  /\ call.op = "truncate"
  /\ ~PivotsInRange
  /\ ~env.INITPIV
  /\ pc = "idle"
  /\ call.path = "qr"
  /\ rank(self) >= 1

\* C8: every non-empty Rk whose rank exceeds min(m, n), be it k > m or k > n,
\* is truncated through the dense fallback, without abort and before the QR and
\* MGS paths
C8_DenseFallbackWheneverRankExceeds ==
  (call.op = "truncate" /\ call.k0 > MinDim(self) /\ PivotsInRange) =>
    (pc = "idle" /\ call.path = "dense")

-----------------------------------------------------------------------------
(* formattedAddParts on its own: one call on every block, list of parts    *)
(* and flag                                                                 *)

FapEnvInputs ==
  { Env(0, Eps(0, 1), FALSE, FALSE, FALSE, FALSE, FALSE),
    Env(0, Eps(1, 2), FALSE, TRUE, FALSE, TRUE, FALSE),
    Env(0, Eps(0, 1), TRUE, TRUE, TRUE, TRUE, TRUE) }

\* blocks large enough for two terms, and for three, to be concatenated
FapSelfInputs ==
  UNION {RkInputs(IndexSet(0, d[1]), IndexSet(0, d[2]), InputMethods) :
           d \in {<<MaxDim + 1, MaxDim + 1>>, <<MaxDim, MaxDim + 2>>,
                  <<MaxDim + 2, MaxDim + 2>>}}

InitFap ==
  /\ env \in FapEnvInputs
  /\ self \in FapSelfInputs
  /\ CtorAsserts(self)
  /\ tmp = NULL
  /\ pc = "call"
  /\ nodes = <<>>
  /\ \E ins \in SeqsUpTo(PartInputs(self.rows, self.cols), MaxParts),
        dotruncate \in BOOLEAN :
       call = [op |-> "formattedAddParts",
               alpha |-> [i \in 1..Len(ins) |-> ins[i].alpha],
               parts |-> [i \in 1..Len(ins) |-> ins[i].part],
               dotruncate |-> dotruncate]

\* tmp receives the Rk the call returns and what the call did
FormattedAddParts ==
  /\ pc = "call"
  /\ call.op = "formattedAddParts"
  /\ \E K \in KernelInputs(env.MGS) :
       LET r == formattedAddParts(self, call.alpha, call.parts, call.dotruncate, K)
       IN /\ tmp' = r
          /\ self' = r.this
          /\ pc' = IF r.ret = "abort" THEN "aborted" ELSE "returned"
  /\ UNCHANGED <<env, call, nodes>>

NextFap == FormattedAddParts

SpecFap == InitFap /\ [][NextFap]_vars

FapReturned == pc = "returned" /\ call.op = "formattedAddParts"

\* the indices of parts[] the filter has to keep
KeptIndices ==
  {i \in 1..Len(call.parts) :
     /\ call.parts[i] # NULL
     /\ call.parts[i][1].a # NULL
     /\ call.parts[i][1].rows.size # 0
     /\ call.parts[i][1].cols.size # 0
     /\ call.alpha[i] # 0}

SelfTerms == IF self.a # NULL THEN 1 ELSE 0

\* C9: the terms that participate are self with coefficient 1, first, when
\* self.rank > 0, then in input order every parts[i] that is non-null, of rank
\* > 0, with non-zero row and column sizes and alpha[i] # 0, each with its own
\* alpha[i]; with no term the result is an empty Rk over (rows, cols)
C9_ParticipatingTerms ==
  FapReturned =>
    LET used == tmp.used
    IN /\ Len(used) = SelfTerms + Cardinality(KeptIndices)
       /\ SelfTerms = 1 => used[1] = Term(self, 1, 0)
       /\ \A p \in (SelfTerms + 1)..Len(used) :
            /\ used[p].idx \in KeptIndices
            /\ used[p].rk = call.parts[used[p].idx][1]
            /\ used[p].alpha = call.alpha[used[p].idx]
       /\ \A p, q \in (SelfTerms + 1)..Len(used) : p < q => used[p].idx < used[q].idx
       /\ Len(used) = 0 =>
            /\ tmp.rk.a = NULL /\ tmp.rk.b = NULL
            /\ tmp.rk.rows = self.rows /\ tmp.rk.cols = self.cols

C9_Witness ==
  /\ FapReturned
  /\ self.a # NULL
  /\ Len(call.parts) = MaxParts
  /\ Cardinality(KeptIndices) = 1
  /\ call.parts[1] # NULL
  /\ call.alpha[1] = 0
  /\ Len(tmp.used) = 2
  /\ tmp.used[2].idx = MaxParts

\* a truncation step was run on the sum: truncate on the concatenated panels,
\* or truncatedSvd on the dense sum
Recompressed == tmp.truncRun \/ tmp.path = "dense"

\* C10 as stated: the result is recompressed exactly when dotruncate is set and
\* more than one term participated; otherwise its rank is the sum of the ranks
\* of the terms and no truncation step is run
C10_RecompressIffFlagAndTerms ==
  FapReturned =>
    /\ Recompressed <=> (call.dotruncate /\ Len(tmp.used) > 1)
    /\ (~call.dotruncate \/ Len(tmp.used) <= 1) => rank(tmp.rk) = tmp.rankTotal

\* C10: when the ranks of the terms sum to min(m, n) or more, the sum is formed
\* dense and recompressed by truncatedSvd whatever dotruncate and the number of
\* terms are; below that, truncate is run exactly when dotruncate is set and more
\* than one term participated, and without it the rank of the result is the sum
\* of the ranks of the terms
C10_RecompressBelowShortcut ==
  FapReturned =>
    IF Len(tmp.used) > 0 /\ tmp.rankTotal >= MinDim(self)
    THEN /\ tmp.path = "dense"
         /\ ~tmp.truncRun
         /\ rank(tmp.rk) <= MinDim(self)
    ELSE /\ tmp.path # "dense"
         /\ tmp.truncRun <=> (call.dotruncate /\ Len(tmp.used) > 1)
         /\ ~tmp.truncRun => rank(tmp.rk) = tmp.rankTotal

C10_Witness ==
  /\ FapReturned
  /\ ~call.dotruncate
  /\ Len(tmp.used) = 1
  /\ tmp.path = "dense"
  /\ rank(tmp.rk) < tmp.rankTotal


SetMin(S) == CHOOSE x \in S : \A y \in S : x <= y

\* C11: the Rk that formattedAddParts builds from the concatenated panels has
\* the minimum of the methods of the terms that participate, self counted only
\* when self.rank > 0
C11_MethodMinOfTerms ==
  (FapReturned /\ tmp.path = "concat") =>
    tmp.rk.method = SetMin({tmp.used[p].rk.method : p \in 1..Len(tmp.used)})

\* the entries of the dense accumulation made from position p of the list
AccAt(p) == { j \in 1..Len(tmp.acc) : tmp.acc[j].pos = p }

\* C17: when the total-rank shortcut fires, the dense-list variant receives
\* every non-self term evaluated to dense at the position of its own alpha, in
\* the order of the list; self is not in the list (a null placeholder stands
\* at its position when self.rank > 0) and enters through its own eval only
C17_DenseListKeepsTerms ==
  (FapReturned /\ tmp.path = "dense") =>
    /\ Len(tmp.acc) = Len(tmp.used) - SelfTerms
    /\ SelfTerms = 1 => AccAt(1) = {}
    /\ \A j \in 1..Len(tmp.acc) : tmp.acc[j].pos = j + SelfTerms
    /\ \A p \in (SelfTerms + 1)..Len(tmp.used) :
         \A j \in AccAt(p) :
           /\ tmp.used[p].idx # 0
           /\ tmp.acc[j].alpha = call.alpha[tmp.used[p].idx]
           /\ tmp.acc[j].rows = call.parts[tmp.used[p].idx][1].rows
           /\ tmp.acc[j].cols = call.parts[tmp.used[p].idx][1].cols

C17_Witness ==
  /\ FapReturned
  /\ tmp.path = "dense"
  /\ self.a # NULL
  /\ Len(tmp.acc) = 2
  /\ tmp.acc[1].alpha # tmp.acc[2].alpha
  /\ tmp.acc[1].rows # tmp.acc[2].rows

\* the columns segment i of the concatenated panels occupies
SegCols(i) == tmp.segs[i].kOffset .. (tmp.segs[i].kOffset + tmp.segs[i].r - 1)

RECURSIVE RanksBefore(_, _)
RanksBefore(order, i) ==
  IF i <= 1 THEN 0 ELSE rank(order[i - 1].rk) + RanksBefore(order, i - 1)

\* C18: in the concatenation, term i is written to the columns
\* [kOffset_i, kOffset_i + r_i) of both panels, kOffset_i the sum of the ranks
\* of the terms before it: the column ranges are pairwise disjoint and cover
\* [0, sum r_i); the rows [rowOffset_i, rowOffset_i + m_i) and
\* [colOffset_i, colOffset_i + n_i) lie inside [0, m) and [0, n); alpha_i is
\* applied to the slice of A only, and only when alpha_i # 1
C18_ConcatenationLayout ==
  (FapReturned /\ tmp.path = "concat") =>
    /\ Len(tmp.segs) = Len(tmp.order)
    /\ \A i \in 1..Len(tmp.segs) :
         /\ tmp.segs[i].idx = tmp.order[i].idx
         /\ tmp.segs[i].r = rank(tmp.order[i].rk)
         /\ tmp.segs[i].kOffset = RanksBefore(tmp.order, i)
         /\ tmp.segs[i].rowOffset >= 0
         /\ tmp.segs[i].rowOffset + tmp.segs[i].m <= self.rows.size
         /\ tmp.segs[i].colOffset >= 0
         /\ tmp.segs[i].colOffset + tmp.segs[i].n <= self.cols.size
         /\ tmp.segs[i].scaled <=> tmp.order[i].alpha # 1
    /\ \A i, j \in 1..Len(tmp.segs) : i # j => SegCols(i) \cap SegCols(j) = {}
    /\ UNION { SegCols(i) : i \in 1..Len(tmp.segs) } = 0..(tmp.rankTotal - 1)
    /\ tmp.this = self
    /\ tmp.parts = call.parts

C18_Witness ==
  /\ FapReturned
  /\ tmp.path = "concat"
  /\ Len(tmp.segs) = 2
  /\ ~tmp.segs[1].scaled
  /\ tmp.segs[2].scaled
  /\ tmp.segs[2].colOffset > 0
  /\ tmp.segs[2].kOffset = 1

\* the gain of a term put first, and of an ordered pair put first
SingleGain(t) == (Bit(t.rk.a[1].ortho) + Bit(t.rk.b[1].ortho)) * rank(t.rk) * rank(t.rk)

PairGain(t1, t2) ==
  PairRkA(t1, t2) * PairRkA(t1, t2) + PairRkB(t1, t2) * PairRkB(t1, t2)

OrderedPairs(used) == { q \in (1..Len(used)) \X (1..Len(used)) : q[1] # q[2] }

BestSingleGain(used) ==
  CHOOSE g \in { SingleGain(used[i]) : i \in 1..Len(used) } :
    \A i \in 1..Len(used) : SingleGain(used[i]) <= g

BestPairGain(used) ==
  CHOOSE g \in { PairGain(used[q[1]], used[q[2]]) : q \in OrderedPairs(used) } :
    \A q \in OrderedPairs(used) : PairGain(used[q[1]], used[q[2]]) <= g

Reordered == FapReturned /\ tmp.path = "concat" /\ env.BESTRK

\* C19: with HMAT_MGS_BESTRK the reordering is a permutation of the (part,
\* alpha) pairs; when an ordered pair of terms has a gain rkA^2 + rkB^2 above
\* the best gain of a single term, the best such pair ends at positions 0 and 1,
\* in its order, and the pivots are its rkA and rkB; otherwise a term of best
\* gain ends first and the pivots are its own
C19_ReorderIsPermutation ==
  Reordered =>
    /\ Len(tmp.order) = Len(tmp.used)
    /\ \A t \in Range(tmp.used) :
         Cardinality({ i \in 1..Len(tmp.order) : tmp.order[i] = t }) = 1
    /\ IF Len(tmp.used) > 1 /\ BestPairGain(tmp.used) > BestSingleGain(tmp.used)
       THEN /\ PairGain(tmp.order[1], tmp.order[2]) = BestPairGain(tmp.used)
            /\ tmp.pivA = PairRkA(tmp.order[1], tmp.order[2])
            /\ tmp.pivB = PairRkB(tmp.order[1], tmp.order[2])
       ELSE /\ SingleGain(tmp.order[1]) = BestSingleGain(tmp.used)
            /\ tmp.pivA = PivotA(tmp.order[1])
            /\ tmp.pivB = PivotB(tmp.order[1])

\* the best pair is (1, 0): the second term goes first and the first, which
\* the first swap has just moved, second
C19_Witness ==
  /\ Reordered
  /\ Len(tmp.used) = 2
  /\ SingleGain(tmp.used[1]) > SingleGain(tmp.used[2])
  /\ PairGain(tmp.used[2], tmp.used[1]) > PairGain(tmp.used[1], tmp.used[2])
  /\ tmp.order = <<tmp.used[2], tmp.used[1]>>
  /\ tmp.used[1].alpha # tmp.used[2].alpha

\* the best pair is (1, 2): both swaps move a term
C19_WitnessThree ==
  /\ Reordered
  /\ Len(tmp.used) = 3
  /\ tmp.order = <<tmp.used[2], tmp.used[3], tmp.used[1]>>

\* the segment that holds column c of the concatenated panels
SegOf(c) == CHOOSE i \in 1..Len(tmp.segs) : c \in SegCols(i)

\* column c of the concatenated A is a column of an ortho-flagged panel of the
\* term at position 0, or of the term at position 1 when its rows do not
\* intersect those of the first, whose panel is ortho-flagged too
OrthoColumnA(c) ==
  /\ SegOf(c) <= 2
  /\ \A i \in 1..SegOf(c) : tmp.order[i].rk.a[1].ortho
  /\ SegOf(c) = 2 => ~intersects(tmp.order[1].rk.rows, tmp.order[2].rk.rows)

OrthoColumnB(c) ==
  /\ SegOf(c) <= 2
  /\ \A i \in 1..SegOf(c) : tmp.order[i].rk.b[1].ortho
  /\ SegOf(c) = 2 => ~intersects(tmp.order[1].rk.cols, tmp.order[2].rk.cols)

\* column c of the concatenated A was copied and not scaled, as were the
\* columns before it
UnscaledColumnA(c) == \A i \in 1..SegOf(c) : ~tmp.segs[i].scaled

\* C20: the initial pivots handed to truncate are sound: 0 <= p_A, p_B <= total
\* rank, and the first p_A columns of the concatenated A (first p_B of B) are
\* unscaled copies of ortho-flagged panels of the term at position 0 and, past
\* its rank, of the term at position 1 whose rows (columns) do not intersect
\* those of the first
C20_InitialPivotsSound ==
  (FapReturned /\ tmp.truncRun) =>
    /\ tmp.pivA \in 0..tmp.rankTotal
    /\ tmp.pivB \in 0..tmp.rankTotal
    /\ \A c \in 0..(tmp.pivA - 1) : OrthoColumnA(c) /\ UnscaledColumnA(c)
    /\ \A c \in 0..(tmp.pivB - 1) : OrthoColumnB(c)

\* what holds of the pivots: they are in range and cover columns of
\* ortho-flagged panels of the first two terms, scaled or not
C20_PivotsCoverOrthoPanels ==
  (FapReturned /\ tmp.truncRun) =>
    /\ tmp.pivA \in 0..tmp.rankTotal
    /\ tmp.pivB \in 0..tmp.rankTotal
    /\ \A c \in 0..(tmp.pivA - 1) : OrthoColumnA(c)
    /\ \A c \in 0..(tmp.pivB - 1) : OrthoColumnB(c)


-----------------------------------------------------------------------------
(* The mixed products, one call each: self is the Rk operand (the first one *)
(* of multiplyRkRk), call.other the other operand, tmp what the call gives. *)

MulOps ==
  {"multiplyRkFull", "multiplyFullRk", "multiplyRkH", "multiplyHRk", "multiplyRkRk"}

\* the Rk operand is on the left
RkFirst(op) == op \in {"multiplyRkFull", "multiplyRkH", "multiplyRkRk"}

TransInputs == {"N", "T", "C"}

\* the default, and HMAT_NEW_RKRK with a tolerance that drops singular values
MulEnvInputs ==
  { Env(0, Eps(0, 1), FALSE, FALSE, FALSE, FALSE, FALSE),
    Env(0, Eps(1, 2), FALSE, FALSE, FALSE, FALSE, TRUE) }

\* rows of the product, contracted indices, columns of the product: of
\* different sizes, and of one size
MulSets ==
  { <<IndexSet(0, 1), IndexSet(1, MaxDim), IndexSet(1 + MaxDim, MaxDim + 1)>>,
    <<IndexSet(0, MaxDim), IndexSet(MaxDim, 1), IndexSet(MaxDim + 1, MaxDim)>>,
    <<IndexSet(0, MaxDim), IndexSet(MaxDim, MaxDim), IndexSet(2 * MaxDim, MaxDim)>> }

\* the contracted indices of the right operand: those of the left one, the same
\* number of them elsewhere, or one more
Contracted(op, y) ==
  IF op \in {"multiplyRkFull", "multiplyRkH", "multiplyRkRk"}
  THEN {y, IndexSet(y.offset + 1, y.size), IndexSet(y.offset, y.size + 1)}
  ELSE {y}

\* the index sets (rows, cols) of an operand that is used as op(X) of r x c
Operand(trans, r, c) == IF trans = "N" THEN <<r, c>> ELSE <<c, r>>

RkOperands(trans, r, c) ==
  RkInputs(Operand(trans, r, c)[1], Operand(trans, r, c)[2], InputMethods)

OtherOperands(op, trans, r, c) ==
  CASE op \in {"multiplyRkFull", "multiplyFullRk"} ->
         {FullMatrix(Operand(trans, r, c)[1], Operand(trans, r, c)[2])}
    [] op \in {"multiplyRkH", "multiplyHRk"} ->
         {HLeaf(Operand(trans, r, c)[1], Operand(trans, r, c)[2], "full", 0)}
    [] OTHER -> RkOperands(trans, r, c)

\* what a read through a NULL panel pointer leads to
NullReadInputs ==
  {[kind |-> "crash"]}
  \cup {[kind |-> "garbage", a |-> ScalarArray(g[1], g[3], FALSE, Val("garbage")),
         b |-> ScalarArray(g[2], g[3], FALSE, Val("garbage"))] :
          g \in {<<0, 0, 1>>, <<1, MaxDim + 1, 1>>, <<MaxDim, MaxDim, MaxRank>>}}

MulKernels == {Kernel(p, FALSE, 0, 0, NoCompression) : p \in {"flat", "tail0", "zero"}}

InitMul ==
  /\ env \in MulEnvInputs
  /\ tmp = NULL
  /\ pc = "call"
  /\ nodes = <<>>
  /\ \E op \in MulOps, trans1 \in TransInputs, trans2 \in TransInputs, s \in MulSets :
       \E y \in Contracted(op, s[2]) :
         IF RkFirst(op)
         THEN /\ self \in RkOperands(trans1, s[1], s[2])
              /\ \E o \in OtherOperands(op, trans2, y, s[3]) :
                   call = [op |-> op, trans1 |-> trans1, trans2 |-> trans2, other |-> o]
         ELSE /\ self \in RkOperands(trans2, y, s[3])
              /\ \E o \in OtherOperands(op, trans1, s[1], s[2]) :
                   call = [op |-> op, trans1 |-> trans1, trans2 |-> trans2, other |-> o]

\* tmp receives what the call gives
MulReturn(r) ==
  /\ tmp' = r
  /\ pc' = CASE r.ret = "return" -> "returned"
             [] r.ret = "abort"  -> "aborted"
             [] OTHER            -> "crashed"
  /\ UNCHANGED <<env, self, call, nodes>>

MultiplyRkFull ==
  /\ pc = "call"
  /\ call.op = "multiplyRkFull"
  /\ MulReturn(multiplyRkFull(call.trans1, call.trans2, self, call.other))

MultiplyFullRk ==
  /\ pc = "call"
  /\ call.op = "multiplyFullRk"
  /\ \E U \in NullReadInputs :
       MulReturn(multiplyFullRk(call.trans1, call.trans2, call.other, self, U))

MultiplyRkH ==
  /\ pc = "call"
  /\ call.op = "multiplyRkH"
  /\ \E U \in NullReadInputs :
       MulReturn(multiplyRkH(call.trans1, call.trans2, self, call.other, U))

MultiplyHRk ==
  /\ pc = "call"
  /\ call.op = "multiplyHRk"
  /\ MulReturn(multiplyHRk(call.trans1, call.trans2, call.other, self))

MultiplyRkRk ==
  /\ pc = "call"
  /\ call.op = "multiplyRkRk"
  /\ \E K \in MulKernels, U \in NullReadInputs :
       MulReturn(multiplyRkRk(call.trans1, call.trans2, self, call.other, K, U))

NextMul ==
  \/ MultiplyRkFull
  \/ MultiplyFullRk
  \/ MultiplyRkH
  \/ MultiplyHRk
  \/ MultiplyRkRk

SpecMul == InitMul /\ [][NextMul]_vars

MulReturned == pc = "returned" /\ call.op \in MulOps

\* index sets (rows, cols) of the dense, H or Rk operand
SetsOf(x) ==
  IF "rows_" \in DOMAIN x THEN <<x.rows_, x.cols_>> ELSE <<x.rows, x.cols>>

LeftSets  == IF RkFirst(call.op) THEN SetsOf(self) ELSE SetsOf(call.other)
RightSets == IF RkFirst(call.op) THEN SetsOf(call.other) ELSE SetsOf(self)

\* C12: the result of each of the five products is over the rows of the left
\* operand (its cols unless op1 = N) and the cols of the right operand (its rows
\* unless op2 = N), and its panels have as many rows as these index sets have
\* indices
C12_ResultIndexSets ==
  MulReturned =>
    LET res == tmp.rk[1]
    IN /\ res.rows = (IF call.trans1 = "N" THEN LeftSets[1] ELSE LeftSets[2])
       /\ res.cols = (IF call.trans2 = "N" THEN RightSets[2] ELSE RightSets[1])
       /\ res.a # NULL => res.a[1].rows = res.rows.size
       /\ res.b # NULL => res.b[1].rows = res.cols.size

C12_Witness ==
  /\ MulReturned
  /\ call.op = "multiplyFullRk"
  /\ call.trans1 = "T"
  /\ call.trans2 = "C"
  /\ rank(self) = MaxRank
  /\ call.other.rows_.size # call.other.cols_.size
  /\ tmp.rk[1].rows = call.other.cols_
  /\ tmp.rk[1].cols = self.rows
  /\ tmp.rk[1].a[1].rows = call.other.cols_.size
  /\ tmp.rk[1].b[1].val.conj

\* C13: the result of the four products with one Rk operand has the method of
\* the Rk operand, whatever its rank
C13_MethodInherited ==
  (MulReturned /\ call.op # "multiplyRkRk") => tmp.rk[1].method = self.method

\* default policy of multiplyRkRk on operands of ranks >= 1
OldPolicy ==
  /\ MulReturned
  /\ call.op = "multiplyRkRk"
  /\ ~env.NEWRKRK
  /\ rank(self) >= 1
  /\ rank(call.other) >= 1

\* C14 as stated: the result has rank min(r1, r2); its newA is a copy of the free
\* panel of the first operand when r1 < r2, its newB a copy of the free panel of
\* the second operand otherwise
C14_SmallerSideCopied ==
  OldPolicy =>
    /\ rank(tmp.rk[1]) = Min(rank(self), rank(call.other))
    /\ IF rank(self) < rank(call.other)
       THEN tmp.rk[1].a[1] = PanelA(call.trans1, self)
       ELSE tmp.rk[1].b[1] = PanelB(call.trans2, call.other)

\* C14: the result has rank min(r1, r2); when r1 < r2 its newA is the free panel
\* of the first operand, conjugated if op1 = C, and otherwise (ties included) its
\* newB is the free panel of the second operand, conjugated if op2 = C
C14_SmallerSideCopiedConj ==
  OldPolicy =>
    /\ rank(tmp.rk[1]) = Min(rank(self), rank(call.other))
    /\ IF rank(self) < rank(call.other)
       THEN tmp.rk[1].a[1] =
              (IF call.trans1 = "C"
               THEN ScalarArray_conjugate(PanelA(call.trans1, self))
               ELSE PanelA(call.trans1, self))
       ELSE tmp.rk[1].b[1] =
              (IF call.trans2 = "C"
               THEN ScalarArray_conjugate(PanelB(call.trans2, call.other))
               ELSE PanelB(call.trans2, call.other))

C14_Witness ==
  /\ OldPolicy
  /\ rank(self) = rank(call.other)
  /\ call.trans1 = "T"
  /\ call.trans2 = "C"
  /\ tmp.rk[1].b[1].val.conj
  /\ tmp.rk[1].a[1].val.id = "gemm"

\* an Rk operand of the call has rank 0
RankZeroOperand ==
  rank(self) = 0 \/ (call.op = "multiplyRkRk" /\ rank(call.other) = 0)

\* the contracted index sets of the two operands agree
CompatibleOperands ==
  (IF call.trans1 = "N" THEN LeftSets[2] ELSE LeftSets[1])
    = (IF call.trans2 = "N" THEN RightSets[1] ELSE RightSets[2])

MulEnded == pc # "call" /\ call.op \in MulOps

\* C24: each of the five products, given an Rk operand of rank 0, returns an
\* empty Rk over the result index sets, without reading an absent panel, for
\* every (op1, op2)
C24_RankZeroReturnsEmpty ==
  (MulEnded /\ RankZeroOperand /\ CompatibleOperands) =>
    /\ pc = "returned"
    /\ tmp.rk[1].a = NULL
    /\ tmp.rk[1].b = NULL
    /\ tmp.rk[1].rows = (IF call.trans1 = "N" THEN LeftSets[1] ELSE LeftSets[2])
    /\ tmp.rk[1].cols = (IF call.trans2 = "N" THEN RightSets[2] ELSE RightSets[1])

\* the two products that test the rank first do return an empty Rk
C24_GuardedProductsReturnEmpty ==
  (MulEnded /\ RankZeroOperand /\ CompatibleOperands
     /\ call.op \in {"multiplyRkFull", "multiplyHRk"}) =>
    /\ pc = "returned"
    /\ tmp.rk[1].a = NULL
    /\ tmp.rk[1].b = NULL

-----------------------------------------------------------------------------
(* gemmRk on its own: one call on a block, for pairs of H-trees of depth up *)
(* to 2 with absent and void children                                       *)

\* a node from its four child pointers (0,0), (0,1), (1,0), (1,1)
Node4(rows, cols, c00, c01, c10, c11) == HNode(rows, cols, <<<<c00, c01>>, <<c10, c11>>>>)

\* a node whose child (0, 0) is void: the child (1, 1) covers the node
VoidFirst(rows, cols, c11) ==
  Node4(rows, cols, Ptr(HLeaf(Empty(rows), Empty(cols), "full", 0)), NULL, NULL, c11)

\* a node whose child (1, 1) is void: the child (0, 0) covers the node
VoidLast(rows, cols, c00) ==
  Node4(rows, cols, c00, NULL, NULL,
        Ptr(HLeaf(IndexSet(rows.offset + rows.size, 0),
                  IndexSet(cols.offset + cols.size, 0), "full", 0)))

\* a node of depth 2: the diagonal children are nodes, the others leaves
Deep(rows, cols, kinds00, kind01, kind10, kinds11) ==
  Node4(rows, cols,
        Ptr(Split(Left(rows), Left(cols), kinds00)),
        Child(Left(rows), Right(cols), kind01),
        Child(Right(rows), Left(cols), kind10),
        Ptr(Split(Right(rows), Right(cols), kinds11)))

AllFull == <<"full", "full", "full", "full">>

\* the pairs of operands: products of leaves, regular trees of depth 1 and 2,
\* trees with absent children off and on the diagonal, void children to
\* prune, null leaves and operands without rows or columns
GemmPairs(rows, cols) ==
  LET mid == IndexSet(2 * MaxDim, 2 * MaxDim)
  IN { <<HLeaf(rows, mid, "rk", 1), HLeaf(mid, cols, "full", 0)>>,
       <<HLeaf(rows, mid, "full", 0), HLeaf(mid, cols, "full", 0)>>,
       <<Split(rows, mid, AllFull), Split(mid, cols, <<"rk", "full", "full", "rk">>)>>,
       <<Split(rows, mid, <<"rk", "full", "absent", "rk">>),
         Split(mid, cols, <<"full", "null", "rk", "full">>)>>,
       <<Deep(rows, mid, AllFull, "rk", "full", <<"rk", "full", "full", "rk">>),
         Deep(mid, cols, <<"full", "rk", "rk", "full">>, "full", "rk", AllFull)>>,
       <<Deep(rows, mid, AllFull, "absent", "full", AllFull),
         Split(mid, cols, <<"full", "absent", "rk", "full">>)>>,
       <<Split(rows, mid, AllFull), HLeaf(mid, cols, "rk", 1)>>,
       <<HLeaf(rows, mid, "null", 0), Split(mid, cols, AllFull)>>,
       <<Split(rows, mid, AllFull), HLeaf(mid, cols, "null", 0)>>,
       <<HLeaf(rows, Empty(mid), "full", 0), HLeaf(Empty(mid), cols, "full", 0)>>,
       <<Split(rows, Empty(mid), AllFull), Split(Empty(mid), cols, AllFull)>>,
       <<VoidFirst(rows, mid, Ptr(Split(rows, mid, AllFull))),
         VoidLast(mid, cols, Ptr(Split(mid, cols, <<"rk", "full", "full", "full">>)))>>,
       <<VoidFirst(rows, mid, Ptr(VoidLast(rows, mid, Ptr(HLeaf(rows, mid, "full", 0))))),
         Split(mid, cols, AllFull)>>,
       <<VoidFirst(rows, mid, Ptr(HLeaf(rows, Empty(mid), "full", 0))),
         Split(mid, cols, AllFull)>>,
       <<Split(rows, mid, <<"absent", "full", "full", "full">>),
         Split(mid, cols, AllFull)>>,
       <<Split(rows, mid, AllFull),
         Split(mid, cols, <<"absent", "full", "full", "absent">>)>>,
       <<VoidFirst(rows, mid, NULL), Split(mid, cols, AllFull)>>,
       <<Split(rows, mid, AllFull), VoidLast(mid, cols, NULL)>> }

\* op(X) as the node X of the call: the transpose of a tree
RECURSIVE TransposeTree(_)
TransposeChild(p) == IF p = NULL THEN NULL ELSE Ptr(TransposeTree(p[1]))

TransposeTree(h) ==
  IF h.leaf THEN [h EXCEPT !.rows = h.cols, !.cols = h.rows]
  ELSE Node4(h.cols, h.rows, TransposeChild(get(h, 0, 0)), TransposeChild(get(h, 1, 0)),
             TransposeChild(get(h, 0, 1)), TransposeChild(get(h, 1, 1)))

GemmOperand(trans, h) == IF trans = "N" THEN h ELSE TransposeTree(h)

GemmSelfInputs ==
  {RkInput(IndexSet(0, 2 * MaxDim), IndexSet(4 * MaxDim, 2 * MaxDim), k,
           <<FALSE, FALSE>>, NoCompression) : k \in 0..1}

InitGemm ==
  /\ env = Env(0, Eps(0, 1), FALSE, FALSE, FALSE, FALSE, FALSE)
  /\ self \in GemmSelfInputs
  /\ tmp = NULL
  /\ pc = "call"
  /\ nodes = <<>>
  /\ \E pair \in GemmPairs(self.rows, self.cols), alpha \in 1..MaxCoef,
        trans \in {<<"N", "N">>, <<"T", "N">>, <<"N", "T">>} :
       call = [op |-> "gemmRk", transHA |-> trans[1], transHB |-> trans[2],
               alpha |-> alpha, ha |-> GemmOperand(trans[1], pair[1]),
               hb |-> GemmOperand(trans[2], pair[2])]

\* gemmRk, lines 1025-1121, as one call; tmp receives what the call did
GemmRkCall ==
  /\ pc = "call"
  /\ call.op = "gemmRk"
  /\ \E K \in GemmKernels, U \in NullChildReads :
       \E g \in {gemmRkBuild(self, call.transHA, call.transHB, call.alpha,
                             call.ha, call.hb, K, U)} :
          /\ (g.ret = "return" /\ g.tmp # NULL) => swapAsserts(g.this, g.tmp[1])
          /\ self' = gemmRkDone(g)
          /\ tmp' = [ret |-> g.ret, path |-> g.path, log |-> g.log, deref |-> g.deref,
                     swapped |-> g.ret = "return" /\ g.tmp # NULL]
          /\ pc' = CASE g.ret = "return" -> "returned"
                     [] g.ret = "abort"  -> "aborted"
                     [] OTHER            -> "crashed"
  /\ UNCHANGED <<env, call, nodes>>

NextGemm == GemmRkCall

SpecGemm == InitGemm /\ [][NextGemm]_vars

GemmEnded == pc # "call" /\ call.op = "gemmRk"

\* what the two pruning loops end on, for operands whose pruning reads no
\* absent child
PrunedA == Prune(Ptr(call.ha), "crash", FALSE)
PrunedB == Prune(Ptr(call.hb), "crash", FALSE)

NoAbsentRead == ~PrunedA.deref /\ ~PrunedB.deref

\* after pruning one of the four dimensions is 0, or an operand is a null leaf
NothingToDo ==
  /\ NoAbsentRead
  /\ \/ PrunedA.h.rows.size = 0 \/ PrunedA.h.cols.size = 0
     \/ PrunedB.h.rows.size = 0 \/ PrunedB.h.cols.size = 0
     \/ (PrunedA.h.leaf /\ PrunedA.h.kind = "null")
     \/ (PrunedB.h.leaf /\ PrunedB.h.kind = "null")

\* C23: gemmRk leaves the target Rk unchanged when, after pruning, one of the
\* four dimensions of the operands is 0 or one operand is a null leaf: it
\* returns with no product accumulated and nothing swapped in
C23_TargetUnchanged ==
  [][(pc = "call" /\ call.op = "gemmRk" /\ NothingToDo) =>
       (/\ self' = self
        /\ pc' = "returned"
        /\ tmp'.log = <<>>
        /\ ~tmp'.swapped)]_vars

C23_Witness ==
  /\ GemmEnded
  /\ pc = "returned"
  /\ NothingToDo
  /\ rank(self) = 1
  /\ ~call.ha.leaf
  /\ PrunedA.h.leaf
  /\ PrunedA.h.kind # "null"
  /\ PrunedA.h.cols.size = 0
  /\ tmp.path = "void"

\* C22: gemmRk terminates, and its pruning tolerates irregular trees: on nodes
\* with 2 x 2 child slots of which some are absent, the pruning loops end at a
\* node of the tree without dereferencing an absent child
C22_PruningReadsNoAbsentChild ==
  GemmEnded => (pc # "crashed" /\ ~tmp.deref)

\* every node of the tree has its child (0, 0), and its child (1, 1) when the
\* child (0, 0) is void
RECURSIVE DiagonalPresent(_)
DiagonalPresent(h) ==
  \/ h.leaf
  \/ /\ get(h, 0, 0) # NULL
     /\ isVoid(get(h, 0, 0)[1]) => get(h, 1, 1) # NULL
     /\ \A i, j \in 0..1 : get(h, i, j) # NULL => DiagonalPresent(get(h, i, j)[1])

\* what holds of the pruning: no absent child is read in trees whose nodes
\* have the diagonal children the loops read
C22_PruningOfPresentDiagonal ==
  (GemmEnded /\ DiagonalPresent(call.ha) /\ DiagonalPresent(call.hb)) =>
    (pc # "crashed" /\ ~tmp.deref)

\* half i of an index set: the rows (columns) of the sub-blocks (i, .) of a
\* block over it
Half(is, i) == IF i = 0 THEN Left(is) ELSE Right(is)

\* children (i, k) of op(ha) and (k, j) of op(hb)
ChildA(trans, ha, i, k) == IF trans = "N" THEN get(ha, i, k) ELSE get(ha, k, i)
ChildB(trans, hb, k, j) == IF trans = "N" THEN get(hb, k, j) ELSE get(hb, j, k)

\* the leaf-level products of op(ha0) x op(hb0) and the block each belongs to,
\* the target being over (rows, cols): in the recursion case those of every
\* pair (a_ik, b_kj) of present children, for sub-block (i, j)
RECURSIVE PresentPairs(_, _, _, _, _, _)
PresentPairsOf(transHA, transHB, ha, hb, rows, cols) ==
  IF ha.rows.size = 0 \/ ha.cols.size = 0 \/ hb.rows.size = 0 \/ hb.cols.size = 0
  THEN {}
  ELSE IF ~ha.leaf /\ ~hb.leaf
  THEN UNION { PresentPairs(transHA, transHB, ChildA(transHA, ha, t[1], t[3])[1],
                            ChildB(transHB, hb, t[3], t[2])[1],
                            Half(rows, t[1]), Half(cols, t[2])) :
                 t \in { u \in (0..1) \X (0..1) \X (0..1) :
                           /\ ChildA(transHA, ha, u[1], u[3]) # NULL
                           /\ ChildB(transHB, hb, u[3], u[2]) # NULL } }
  ELSE IF (ha.leaf /\ ha.kind = "null") \/ (hb.leaf /\ hb.kind = "null")
  THEN {}
  ELSE {[rows |-> rows, cols |-> cols, a |-> <<ha.rows, ha.cols>>,
         b |-> <<hb.rows, hb.cols>>]}

PresentPairs(transHA, transHB, ha0, hb0, rows, cols) ==
  PresentPairsOf(transHA, transHB, Prune(Ptr(ha0), "crash", FALSE).h,
                 Prune(Ptr(hb0), "crash", FALSE).h, rows, cols)

LoggedPair(e) == [rows |-> e.rows, cols |-> e.cols, a |-> e.a, b |-> e.b]

\* the log holds each expected product once, with the coefficient alpha
LogIs(log, expected, alpha) ==
  /\ { LoggedPair(log[n]) : n \in 1..Len(log) } = expected
  /\ Len(log) = Cardinality(expected)
  /\ \A n \in 1..Len(log) : log[n].coef = alpha

-----------------------------------------------------------------------------
(* The tree class (src/src/tree.hpp) *)

\* A node: its depth field, its children vector (of pointers to nodes, by
\* address) and its father pointer.  alive is cleared by delete.
Tree(_father, _depth) ==
  [depth |-> _depth, children |-> <<>>, father |-> _father, alive |-> TRUE]

\* children.resize(n, NULL)
Resize(children, n) ==
  children \o [i \in 1..(n - Len(children)) |-> NULL]

\* the non-null children of a node, by address
NonNullChildren(ns, this) ==
  { ns[this].children[i][1] :
      i \in { j \in 1..Len(ns[this].children) : ns[this].children[j] # NULL } }

\* listNodes: this, then the nodes of each non-null child
RECURSIVE listNodes(_, _)
RECURSIVE listNodesFrom(_, _, _)
listNodesFrom(ns, this, i) ==
  IF i > Len(ns[this].children)
  THEN <<>>
  ELSE (IF ns[this].children[i] # NULL
        THEN listNodes(ns, ns[this].children[i][1])
        ELSE <<>>) \o listNodesFrom(ns, this, i + 1)

listNodes(ns, this) == <<this>> \o listNodesFrom(ns, this, 1)

RECURSIVE nodesCount(_, _)
RECURSIVE nodesCountFrom(_, _, _)
nodesCountFrom(ns, this, i) ==
  IF i > Len(ns[this].children)
  THEN 0
  ELSE (IF ns[this].children[i] # NULL
        THEN nodesCount(ns, ns[this].children[i][1])
        ELSE 0) + nodesCountFrom(ns, this, i + 1)

nodesCount(ns, this) == 1 + nodesCountFrom(ns, this, 1)

nbChild(ns, this) == Len(ns[this].children)

isLeaf(ns, this) == ns[this].children = <<>>

RECURSIVE listAllLeaves(_, _)
RECURSIVE listAllLeavesFrom(_, _, _)
listAllLeavesFrom(ns, this, i) ==
  IF i > Len(ns[this].children)
  THEN <<>>
  ELSE (IF ns[this].children[i] # NULL
        THEN listAllLeaves(ns, ns[this].children[i][1])
        ELSE <<>>) \o listAllLeavesFrom(ns, this, i + 1)

listAllLeaves(ns, this) ==
  IF ~isLeaf(ns, this)
  THEN listAllLeavesFrom(ns, this, 1)
  ELSE <<this>>

\* ~Tree: deletes every non-null child, then clears the vector; what a freed
\* node held is gone
DeleteTree(ns, this) ==
  [a \in 1..Len(ns) |->
     IF a \in Range(listNodes(ns, this))
     THEN [Tree(NULL, 0) EXCEPT !.alive = FALSE]
     ELSE ns[a]]

\* the first line of insertChild: the vector grown to hold the index
insertChildResize(children, index) ==
  IF Len(children) <= index THEN Resize(children, index + 1) ELSE children

\* the depth insertChild gives to the child
insertChildDepth(ns, this) == ns[this].depth + 1

insertChild(ns, this, index, child) ==
  [ns EXCEPT ![this].children =
                [insertChildResize(ns[this].children, index) EXCEPT ![index + 1] = Ptr(child)],
             ![child].father = Ptr(this),
             ![child].depth = insertChildDepth(ns, this)]

removeChildDelete(ns, this, index) ==
  IF ns[this].children[index + 1] # NULL
  THEN DeleteTree(ns, ns[this].children[index + 1][1])
  ELSE ns

removeChild(ns, this, index) ==
  [removeChildDelete(ns, this, index) EXCEPT ![this].children[index + 1] = NULL]

MaxNodes == 3    \* nodes allocated in a run
MaxIndex == 1    \* largest index handed to insertChild / removeChild

Alive(ns) == { a \in 1..Len(ns) : ns[a].alive }

\* a node that no children vector holds
Detached(ns, n) == \A a \in Alive(ns) : n \notin NonNullChildren(ns, a)

InitTree ==
  /\ env = Env(0, Eps(0, 1), FALSE, FALSE, FALSE, FALSE, FALSE)
  /\ self = NULL
  /\ tmp = NULL
  /\ pc = "idle"
  /\ nodes = <<>>
  /\ call = NoCall

\* new Tree(NULL)
NewTree ==
  /\ Len(nodes) < MaxNodes
  /\ nodes' = Append(nodes, Tree(NULL, 0))
  /\ call' = [op |-> "Tree", this |-> Len(nodes) + 1]
  /\ UNCHANGED <<env, self, tmp, pc>>

\* this->insertChild(index, child), for a child that no node holds and that
\* does not hold this
InsertChild ==
  /\ \E this \in Alive(nodes), child \in Alive(nodes), index \in 0..MaxIndex :
       /\ Detached(nodes, child)
       /\ this \notin Range(listNodes(nodes, child))
       /\ nodes' = insertChild(nodes, this, index, child)
       /\ call' = [op |-> "insertChild", this |-> this, index |-> index, child |-> child]
  /\ UNCHANGED <<env, self, tmp, pc>>

\* this->removeChild(index), for an index inside the children vector
RemoveChild ==
  /\ \E this \in Alive(nodes) :
       \E index \in 0..(nbChild(nodes, this) - 1) :
         /\ nodes' = removeChild(nodes, this, index)
         /\ call' = [op |-> "removeChild", this |-> this, index |-> index]
  /\ UNCHANGED <<env, self, tmp, pc>>

NextTree ==
  \/ NewTree
  \/ InsertChild
  \/ RemoveChild

SpecTree == InitTree /\ [][NextTree]_vars

NoChildren(ns, this) == NonNullChildren(ns, this) = {}

\* C15: after any sequence of insertChild and removeChild, isLeaf() is true
\* exactly when the node has no non-null child, and listAllLeaves returns
\* exactly the nodes of the subtree that have no children.
C15_IsLeafIffNoChildren ==
  \A n \in Alive(nodes) :
    /\ isLeaf(nodes, n) <=> NoChildren(nodes, n)
    /\ Range(listAllLeaves(nodes, n)) =
         { m \in Range(listNodes(nodes, n)) : NoChildren(nodes, m) }

\* the part of C15 that holds: a node isLeaf() accepts has no child
C15_IsLeafImpliesNoChildren ==
  \A n \in Alive(nodes) : isLeaf(nodes, n) => NoChildren(nodes, n)

\* no removeChild has deleted a node: the tree was built by insertChild alone
NothingDeleted(ns) == \A a \in 1..Len(ns) : ns[a].alive

\* a root: a node that no node holds and whose father pointer is null
IsRoot(ns, n) == Detached(ns, n) /\ ns[n].father = NULL

\* C16: after any sequence of insertChild calls, every node's depth field is
\* its depth in the tree: 0 for the root, father's depth + 1 for every node
\* reachable through children.
C16_DepthIsTreeDepth ==
  NothingDeleted(nodes) =>
    \A n \in Alive(nodes) :
      /\ IsRoot(nodes, n) => nodes[n].depth = 0
      /\ \A c \in NonNullChildren(nodes, n) : nodes[c].depth = nodes[n].depth + 1

=============================================================================
